---------------------------- MODULE Spec2Model ----------------------------
(***************************************************************************)
(* A model of gitstory's history-processing pipeline                       *)
(* (src/src/gitstory/parser): per-commit validation, commit classification,*)
(* data reduction and the RepoParser.parse pipeline with its two           *)
(* validation policies.                                                    *)
(*                                                                         *)
(* Python values are tagged records: [t |-> "str", v |-> ...],             *)
(* [t |-> "int", v |-> n], [t |-> "list", v |-> <<...>>], None.  A dict    *)
(* with string keys whose order does not matter is a TLA+ function whose   *)
(* DOMAIN is its key set; a dict whose iteration order matters is a        *)
(* sequence of <<key, value>> pairs in insertion order.  Message and name  *)
(* texts are sequences of one-character strings.                           *)
(***************************************************************************)
EXTENDS Integers, Sequences, FiniteSets, TLC

VARIABLES
    policy_arg,            \* the on_validation_error argument RepoParser(...) was given
    on_validation_error,   \* RepoParser.on_validation_error
    grouper,               \* which object RepoParser.grouper is
    cleaner,               \* which object RepoParser.cleaner is
    validation_report,     \* RepoParser.validation_report (one object per parser)
    pc,                    \* position of the running parse() call
    raw_commits,           \* parse(): raw_commits
    validated_commits,     \* parse(): validated_commits
    grouped,               \* parse(): grouped
    cleaned,               \* parse(): cleaned
    outcome,               \* what the last parse() call returned or raised
    calls,                 \* the stage operations the running call has invoked, in order
    runs,                  \* number of parse() calls started on this parser
    run_log,               \* history: what this run recorded (warnings, drops)
    arg,                   \* input of the pure function under test
    ret                    \* its result

vars == <<policy_arg, on_validation_error, grouper, cleaner, validation_report, pc,
          raw_commits, validated_commits, grouped, cleaned, outcome, calls,
          runs, run_log, arg, ret>>

pipeline_vars == <<policy_arg, on_validation_error, grouper, cleaner, validation_report, pc,
                   raw_commits, validated_commits, grouped, cleaned, outcome,
                   calls, runs, run_log>>

-----------------------------------------------------------------------------
(* Python values *)

None == [t |-> "NoneType"]
Str(s) == [t |-> "str", v |-> s]
Num(n) == [t |-> "int", v |-> n]
List(s) == [t |-> "list", v |-> s]
Dict(d) == [t |-> "dict", v |-> d]
Nothing == [t |-> "unset"]      \* a local variable not assigned yet

SetKey(d, k, x) == [f \in DOMAIN d \cup {k} |-> IF f = k THEN x ELSE d[f]]
SetDefault(d, k, x) == IF k \in DOMAIN d THEN d ELSE SetKey(d, k, x)

RECURSIVE SumSeq(_)
SumSeq(s) == IF s = <<>> THEN 0 ELSE Head(s) + SumSeq(Tail(s))

(* Ordered dicts: sequences of <<key, value>> pairs *)
Keys(d) == [i \in 1..Len(d) |-> d[i][1]]
HasKey(d, k) == \E i \in 1..Len(d) : d[i][1] = k
Get(d, k) == d[CHOOSE i \in 1..Len(d) : d[i][1] = k][2]
Put(d, k, x) ==
    IF HasKey(d, k)
    THEN [i \in 1..Len(d) |-> IF d[i][1] = k THEN <<k, x>> ELSE d[i]]
    ELSE Append(d, <<k, x>>)

-----------------------------------------------------------------------------
(* validation.py *)

\* datetime.fromisoformat on a timestamp text: the text is either of the ISO
\* form, with its month, day and hour fields, or some other text.
DaysIn(mo) == IF mo = 2 THEN 28 ELSE IF mo \in {4, 6, 9, 11} THEN 30 ELSE 31

fromisoformat_ok(text) ==
    /\ text.form = "iso"
    /\ text.mo \in 1..12
    /\ text.d \in 1..DaysIn(text.mo)
    /\ text.h \in 0..23

required_fields == <<"hash", "author", "message", "timestamp">>

\* the loop over the required fields: the first one absent or None, or ""
RECURSIVE FirstMissing(_, _, _)
FirstMissing(commit, fields, i) ==
    IF i > Len(fields) THEN ""
    ELSE IF fields[i] \notin DOMAIN commit \/ commit[fields[i]] = None
         THEN fields[i]
         ELSE FirstMissing(commit, fields, i + 1)

validate_commit(commit) ==
    LET missing == FirstMissing(commit, required_fields, 1) IN
    IF missing # ""
    THEN <<FALSE, [text |-> "Missing required field", field |-> missing]>>
    ELSE IF commit["timestamp"].t = "str" /\ ~fromisoformat_ok(commit["timestamp"].v)
         THEN <<FALSE, [text |-> "Invalid timestamp format",
                        timestamp |-> commit["timestamp"].v]>>
         ELSE <<TRUE, [text |-> ""]>>

\* int(x): digits of a text, the value of an int; ValueError/TypeError otherwise
Digit(c) == CASE c = "0" -> 0 [] c = "1" -> 1 [] c = "2" -> 2 [] c = "3" -> 3
              [] c = "4" -> 4 [] c = "5" -> 5 [] c = "6" -> 6 [] c = "7" -> 7
              [] c = "8" -> 8 [] c = "9" -> 9 [] OTHER -> -1

RECURSIVE DigitsValue(_, _)
DigitsValue(s, acc) ==
    IF s = <<>> THEN acc ELSE DigitsValue(Tail(s), 10 * acc + Digit(Head(s)))

PyInt(x) ==
    CASE x.t = "int" -> [ok |-> TRUE, v |-> x.v]
      [] x.t = "str" ->
            LET signed == x.v # <<>> /\ Head(x.v) \in {"-", "+"}
                digits == IF signed THEN Tail(x.v) ELSE x.v
            IN  IF digits # <<>> /\ \A i \in 1..Len(digits) : Digit(digits[i]) >= 0
                THEN [ok |-> TRUE,
                      v |-> IF signed /\ Head(x.v) = "-"
                            THEN 0 - DigitsValue(digits, 0)
                            ELSE DigitsValue(digits, 0)]
                ELSE [ok |-> FALSE, v |-> 0]
      [] OTHER -> [ok |-> FALSE, v |-> 0]

Unknown == <<"U", "n", "k", "n", "o", "w", "n">>
NoCommitMessage == <<"(", "N", "o", " ", "c", "o", "m", "m", "i", "t", " ",
                     "m", "e", "s", "s", "a", "g", "e", ")">>

sanitize_commit(commit) ==
    LET s1 == IF "author" \in DOMAIN commit /\ commit["author"].t = "str"
              THEN commit ELSE SetKey(commit, "author", Str(Unknown))
        s2 == IF "message" \in DOMAIN s1 /\ s1["message"].t = "str"
              THEN s1 ELSE SetKey(s1, "message", Str(NoCommitMessage))
        s3 == SetDefault(s2, "files_changed", List(<<>>))
        s4 == SetDefault(s3, "insertions", Num(0))
        s5 == SetDefault(s4, "deletions", Num(0))
        s6 == SetDefault(s5, "diff", Str(<<>>))
        ins == PyInt(s6["insertions"])
        del == PyInt(s6["deletions"])
    IN  IF ins.ok /\ del.ok
        THEN SetKey(SetKey(s6, "insertions", Num(ins.v)), "deletions", Num(del.v))
        ELSE SetKey(SetKey(s6, "insertions", Num(0)), "deletions", Num(0))

\* ValidationReport.__init__
NewReport == [warnings |-> <<>>, skipped_commits |-> 0, total_commits_processed |-> 0]

add_warning(report, message) ==
    [report EXCEPT !.warnings = Append(@, message)]

\* commit.get('hash', 'unknown') inside the f-string
HashText(commit) ==
    IF "hash" \notin DOMAIN commit THEN <<"u", "n", "k", "n", "o", "w", "n">>
    ELSE IF commit["hash"] = None THEN <<"N", "o", "n", "e">>
    ELSE commit["hash"].v

SkipWarning(commit, error_msg) ==
    [text |-> "Skipped commit", hash |-> HashText(commit), error |-> error_msg]

\* the loop of validate_commits from position i on;
\* the result is the list built and the report as the loop leaves it
RECURSIVE ValidateLoop(_, _, _, _)
ValidateLoop(commits, i, valid_commits, report) ==
    IF i > Len(commits) THEN [valid |-> valid_commits, report |-> report]
    ELSE LET res == validate_commit(commits[i]) IN
         IF ~res[1]
         THEN ValidateLoop(commits, i + 1, valid_commits,
                  add_warning([report EXCEPT !.skipped_commits = @ + 1],
                              SkipWarning(commits[i], res[2])))
         ELSE ValidateLoop(commits, i + 1,
                  Append(valid_commits, sanitize_commit(commits[i])), report)

validate_commits(commits, report) ==
    ValidateLoop(commits, 1, <<>>,
                 [report EXCEPT !.total_commits_processed = Len(commits)])

-----------------------------------------------------------------------------
(* commit_grouper.py *)

UpperLetters == <<"A", "B", "C", "D", "E", "F", "G", "H", "I", "J", "K", "L", "M",
                  "N", "O", "P", "Q", "R", "S", "T", "U", "V", "W", "X", "Y", "Z">>
LowerLetters == <<"a", "b", "c", "d", "e", "f", "g", "h", "i", "j", "k", "l", "m",
                  "n", "o", "p", "q", "r", "s", "t", "u", "v", "w", "x", "y", "z">>

\* str.lower(), character by character
LowerChar(c) ==
    IF \E i \in 1..26 : UpperLetters[i] = c
    THEN LowerLetters[CHOOSE i \in 1..26 : UpperLetters[i] = c]
    ELSE c

lower(s) == [i \in 1..Len(s) |-> LowerChar(s[i])]

\* the four shapes of regular expression PATTERNS uses
Scoped(head, opt) == [k |-> "scoped", a |-> head, b |-> opt]    \* ^head opt? (\(.+\))? :
Prefix(lit) == [k |-> "prefix", a |-> lit, b |-> <<>>]          \* ^lit
Contains(lit) == [k |-> "contains", a |-> lit, b |-> <<>>]      \* lit
Gap(first, second) == [k |-> "gap", a |-> first, b |-> second]  \* first.*second

\* lit occurs in s starting at position p
At(s, lit, p) ==
    /\ p >= 1
    /\ p + Len(lit) - 1 <= Len(s)
    /\ \A i \in 1..Len(lit) : s[p + i - 1] = lit[i]

NewLine == "\n"

\* (\(.+\))?: matched from position p: a colon, or a parenthesised scope of
\* one or more characters other than a newline, then a colon
ScopeColonAt(s, p) ==
    \/ At(s, <<":">>, p)
    \/ /\ At(s, <<"(">>, p)
       /\ \E q \in (p + 2)..Len(s) :
            /\ s[q] = ")"
            /\ At(s, <<":">>, q + 1)
            /\ \A r \in (p + 1)..(q - 1) : s[r] # NewLine

\* re.search(pattern, s) finds a match
re_search(pattern, s) ==
    CASE pattern.k = "scoped" ->
            /\ At(s, pattern.a, 1)
            /\ \/ ScopeColonAt(s, Len(pattern.a) + 1)
               \/ /\ pattern.b # <<>>
                  /\ At(s, pattern.b, Len(pattern.a) + 1)
                  /\ ScopeColonAt(s, Len(pattern.a) + Len(pattern.b) + 1)
      [] pattern.k = "prefix" -> At(s, pattern.a, 1)
      [] pattern.k = "contains" -> \E p \in 1..Len(s) : At(s, pattern.a, p)
      [] pattern.k = "gap" ->
            \E p \in 1..Len(s) : \E q \in 1..Len(s) :
                /\ At(s, pattern.a, p)
                /\ q >= p + Len(pattern.a)
                /\ At(s, pattern.b, q)
                /\ \A r \in (p + Len(pattern.a))..(q - 1) : s[r] # NewLine

\* CommitGrouper.PATTERNS, in the order the dict literal lists them
PATTERNS ==
    << <<"feature",
         <<Scoped(<<"f", "e", "a", "t">>, <<>>),
           Prefix(<<"a", "d", "d">>),
           Prefix(<<"i", "m", "p", "l", "e", "m", "e", "n", "t">>),
           Contains(<<"n", "e", "w", " ", "f", "e", "a", "t", "u", "r", "e">>),
           Contains(<<"f", "e", "a", "t", "u", "r", "e", ":">>)>> >>,
       <<"bugfix",
         <<Scoped(<<"f", "i", "x">>, <<>>),
           Prefix(<<"b", "u", "g">>),
           Contains(<<"h", "o", "t", "f", "i", "x">>),
           Contains(<<"p", "a", "t", "c", "h">>),
           Gap(<<"r", "e", "s", "o", "l", "v", "e">>, <<"i", "s", "s", "u", "e">>)>> >>,
       <<"refactor",
         <<Scoped(<<"r", "e", "f", "a", "c", "t", "o", "r">>, <<>>),
           Contains(<<"r", "e", "f", "a", "c", "t", "o", "r">>),
           Contains(<<"r", "e", "s", "t", "r", "u", "c", "t", "u", "r", "e">>),
           Contains(<<"r", "e", "o", "r", "g", "a", "n", "i", "z", "e">>)>> >>,
       <<"docs",
         <<Scoped(<<"d", "o", "c">>, <<"s">>),
           Contains(<<"d", "o", "c", "u", "m", "e", "n", "t", "a", "t", "i", "o", "n">>),
           Contains(<<"r", "e", "a", "d", "m", "e">>),
           Contains(<<"c", "o", "m", "m", "e", "n", "t">>)>> >>,
       <<"style",
         <<Scoped(<<"s", "t", "y", "l", "e">>, <<>>),
           Contains(<<"f", "o", "r", "m", "a", "t", "t", "i", "n", "g">>),
           Contains(<<"w", "h", "i", "t", "e", "s", "p", "a", "c", "e">>),
           Contains(<<"l", "i", "n", "t">>)>> >>,
       <<"test",
         <<Scoped(<<"t", "e", "s", "t">>, <<>>),
           Gap(<<"a", "d", "d">>, <<"t", "e", "s", "t">>),
           Gap(<<"t", "e", "s", "t">>, <<"c", "o", "v", "e", "r", "a", "g", "e">>)>> >>,
       <<"chore",
         <<Scoped(<<"c", "h", "o", "r", "e">>, <<>>),
           Contains(<<"d", "e", "p", "e", "n", "d", "e", "n", "c", "y">>),
           Contains(<<"d", "e", "p", "e", "n", "d", "e", "n", "c", "i", "e", "s">>),
           Contains(<<"p", "a", "c", "k", "a", "g", "e">>),
           Contains(<<"b", "u", "i", "l", "d">>)>> >> >>

\* the two nested loops of _classify_commit, from category ci, pattern pi on
RECURSIVE ClassifyFrom(_, _, _)
ClassifyFrom(message_lower, ci, pi) ==
    IF ci > Len(PATTERNS) THEN "other"
    ELSE IF pi > Len(PATTERNS[ci][2]) THEN ClassifyFrom(message_lower, ci + 1, 1)
    ELSE IF re_search(PATTERNS[ci][2][pi], message_lower) THEN PATTERNS[ci][1]
    ELSE ClassifyFrom(message_lower, ci, pi + 1)

\* the patterns tried on the message as written, not lower-cased
_classify_commit_AsWritten(message) == ClassifyFrom(message, 1, 1)

_classify_commit(message) == ClassifyFrom(lower(message), 1, 1)

\* the grouped dict group_commits starts from
EmptyGroups ==
    << <<"feature", <<>> >>, <<"bugfix", <<>> >>, <<"refactor", <<>> >>,
       <<"docs", <<>> >>, <<"style", <<>> >>, <<"test", <<>> >>,
       <<"chore", <<>> >>, <<"other", <<>> >> >>

\* grouped[commit_type] = [commit]: the bucket replaced, not appended to
GroupAppend_Replaces(grouped_commits, commit_type, commit) ==
    Put(grouped_commits, commit_type, <<commit>>)

\* grouped[commit_type].append(commit)
GroupAppend(grouped_commits, commit_type, commit) ==
    Put(grouped_commits, commit_type, Append(Get(grouped_commits, commit_type), commit))

\* one pass of the loop of group_commits over a commit
GroupStep(st, commit) ==
    LET commit_type == _classify_commit(commit["message"].v)
        email == IF "email" \in DOMAIN commit THEN commit["email"] ELSE commit["author"]
        author_name == commit["author"]
        e2n == IF ~HasKey(st.email_to_name, email)
                  \/ Len(author_name.v) > Len(Get(st.email_to_name, email).v)
               THEN Put(st.email_to_name, email, author_name)
               ELSE st.email_to_name
        old == IF HasKey(st.author_stats, email)
               THEN Get(st.author_stats, email)
               ELSE [count |-> 0, types |-> <<>>, name |-> author_name]
        new == [count |-> old.count + 1,
                name |-> Get(e2n, email),
                types |-> Put(old.types, commit_type,
                              (IF HasKey(old.types, commit_type)
                               THEN Get(old.types, commit_type) ELSE 0) + 1)]
    IN  [grouped |-> GroupAppend(st.grouped, commit_type, commit),
         email_to_name |-> e2n,
         author_stats |-> Put(st.author_stats, email, new)]

\* the loop of group_commits from position i on; st is what the passes
\* before have built (comparing it with itself has TLC evaluate it before
\* the next pass, so that long lists do not nest the evaluation)
RECURSIVE GroupLoop(_, _, _)
GroupLoop(commits, i, st) ==
    IF i > Len(commits) \/ st # st THEN st
    ELSE GroupLoop(commits, i + 1, GroupStep(st, commits[i]))

\* {data["name"]: {...} for data in author_stats.values()}: a later entry with
\* a name already present replaces the earlier one
RECURSIVE ByName(_, _, _)
ByName(author_stats, i, acc) ==
    IF i > Len(author_stats) THEN acc
    ELSE ByName(author_stats, i + 1,
                Put(acc, author_stats[i][2].name,
                    [count |-> author_stats[i][2].count,
                     types |-> author_stats[i][2].types]))

\* {k: len(v) for k, v in grouped.items() if v}
RECURSIVE ByType(_, _, _)
ByType(grouped_commits, i, acc) ==
    IF i > Len(grouped_commits) THEN acc
    ELSE ByType(grouped_commits, i + 1,
                IF grouped_commits[i][2] # <<>>
                THEN Append(acc, <<grouped_commits[i][1], Len(grouped_commits[i][2])>>)
                ELSE acc)

group_commits(commits) ==
    LET st == GroupLoop(commits, 1, [grouped |-> EmptyGroups,
                                     email_to_name |-> <<>>,
                                     author_stats |-> <<>>])
    IN  [grouped_commits |->
             Dict([i \in 1..Len(st.grouped) |->
                      <<st.grouped[i][1], List(st.grouped[i][2])>>]),
         stats |-> Dict([total_commits |-> Len(commits),
                         by_type |-> ByType(st.grouped, 1, <<>>),
                         by_author |-> ByName(st.author_stats, 1, <<>>)])]

-----------------------------------------------------------------------------
(* validation.py: the checks on the stages' outputs *)

_check_commit_record_fields(commit) ==
    LET missing == FirstMissing(commit, required_fields, 1) IN
    IF missing # ""
    THEN <<FALSE, [text |-> "Missing required commit field", field |-> missing]>>
    ELSE <<TRUE, [text |-> ""]>>

\* the first commit of the list, from position i on, that fails the field check
RECURSIVE FirstBadRecord(_, _)
FirstBadRecord(commits, i) ==
    IF i > Len(commits) THEN 0
    ELSE IF ~_check_commit_record_fields(commits[i])[1] THEN i
    ELSE FirstBadRecord(commits, i + 1)

\* the loop of validate_grouped_data over the groups, from group i on
\* (every element of a commit list is a dict in this model)
RECURSIVE CheckGroups(_, _)
CheckGroups(items, i) ==
    IF i > Len(items) THEN <<TRUE, [text |-> ""]>>
    ELSE IF items[i][2].t # "list"
    THEN <<FALSE, [text |-> "must contain a list of commits", group |-> items[i][1]]>>
    ELSE LET bad == FirstBadRecord(items[i][2].v, 1) IN
         IF bad # 0
         THEN <<FALSE, [text |-> "In group", group |-> items[i][1],
                        inner |-> _check_commit_record_fields(items[i][2].v[bad])[2]]>>
         ELSE CheckGroups(items, i + 1)

validate_grouped_data(grouped_data) ==
    IF "grouped_commits" \notin DOMAIN grouped_data
    THEN <<FALSE, [text |-> "Missing required key", key |-> "grouped_commits"]>>
    ELSE IF "stats" \notin DOMAIN grouped_data
    THEN <<FALSE, [text |-> "Missing required key", key |-> "stats"]>>
    ELSE IF grouped_data["grouped_commits"].t # "dict"
    THEN <<FALSE, [text |-> "grouped_commits must be a dictionary"]>>
    ELSE IF grouped_data["stats"].t # "dict"
    THEN <<FALSE, [text |-> "stats must be a dictionary"]>>
    ELSE CheckGroups(grouped_data["grouped_commits"].v, 1)

cleaned_required_keys == <<"commits", "summary_text", "stats", "metadata">>

RECURSIVE FirstAbsentKey(_, _, _)
FirstAbsentKey(d, keys, i) ==
    IF i > Len(keys) THEN ""
    ELSE IF keys[i] \notin DOMAIN d THEN keys[i]
    ELSE FirstAbsentKey(d, keys, i + 1)

validate_cleaned_data(cleaned_data) ==
    LET absent == FirstAbsentKey(cleaned_data, cleaned_required_keys, 1) IN
    IF absent # ""
    THEN <<FALSE, [text |-> "Missing required key", key |-> absent]>>
    ELSE IF cleaned_data["commits"].t # "list"
    THEN <<FALSE, [text |-> "commits must be a list"]>>
    ELSE IF cleaned_data["summary_text"].t # "str"
    THEN <<FALSE, [text |-> "summary_text must be a string"]>>
    ELSE LET bad == FirstBadRecord(cleaned_data["commits"].v, 1) IN
         IF bad # 0
         THEN <<FALSE, [text |-> "commit at index", index |-> bad - 1,
                        inner |-> _check_commit_record_fields(
                                         cleaned_data["commits"].v[bad])[2]]>>
         ELSE <<TRUE, [text |-> ""]>>

-----------------------------------------------------------------------------
(* data_cleaner.py *)

MAX_MESSAGE_LENGTH == 200
MAX_COMMITS_PER_GROUP == 50
MAX_DIFF_CHUNK_SIZE == 2000
SummaryLines == 10
SummaryMessageLength == 100

\* a slice that keeps one item more than asked for
Take_OneMore(s, n) == SubSeq(s, 1, IF Len(s) < n + 1 THEN Len(s) ELSE n + 1)

Take(s, n) == SubSeq(s, 1, IF Len(s) < n THEN Len(s) ELSE n)
Ellipsis == <<".", ".", ".">>

\* range(0, len(diff_text), MAX_DIFF_CHUNK_SIZE), from offset i on (0-based)
RECURSIVE ChunksFrom(_, _)
ChunksFrom(diff_text, i) ==
    IF i >= Len(diff_text) THEN <<>>
    ELSE <<SubSeq(diff_text, i + 1,
                  IF i + MAX_DIFF_CHUNK_SIZE > Len(diff_text)
                  THEN Len(diff_text) ELSE i + MAX_DIFF_CHUNK_SIZE)>>
         \o ChunksFrom(diff_text, i + MAX_DIFF_CHUNK_SIZE)

\* a chunking that drops a last chunk shorter than MAX_DIFF_CHUNK_SIZE
_chunk_diff_FullChunksOnly(diff_text) ==
    IF diff_text = None \/ diff_text.v = <<>> THEN <<>>
    ELSE SelectSeq(ChunksFrom(diff_text.v, 0),
                   LAMBDA chunk : Len(chunk) = MAX_DIFF_CHUNK_SIZE)

\* `not diff_text` holds of None and of the empty text
_chunk_diff(diff_text) ==
    IF diff_text = None \/ diff_text.v = <<>> THEN <<>>
    ELSE ChunksFrom(diff_text.v, 0)

\* a reduction that already cuts a message of exactly MAX_MESSAGE_LENGTH
_clean_commit_CutsAtLimit(commit, commit_type) ==
    LET message == commit["message"].v IN
    [hash |-> commit["hash"],
     author |-> commit["author"],
     timestamp |-> commit["timestamp"],
     message |-> Str(IF Len(message) >= MAX_MESSAGE_LENGTH
                     THEN Take(message, MAX_MESSAGE_LENGTH) \o Ellipsis
                     ELSE message),
     type |-> commit_type,
     files_changed |-> Num(Len(commit["files_changed"].v)),
     changes |-> Num(commit["insertions"].v + commit["deletions"].v),
     diff_chunks |-> List(_chunk_diff(IF "diff" \in DOMAIN commit
                                      THEN commit["diff"] ELSE Str(<<>>)))]

_clean_commit(commit, commit_type) ==
    LET message == commit["message"].v IN
    [hash |-> commit["hash"],
     author |-> commit["author"],
     timestamp |-> commit["timestamp"],
     message |-> Str(IF Len(message) > MAX_MESSAGE_LENGTH
                     THEN Take(message, MAX_MESSAGE_LENGTH) \o Ellipsis
                     ELSE message),
     type |-> commit_type,
     files_changed |-> Num(Len(commit["files_changed"].v)),
     changes |-> Num(commit["insertions"].v + commit["deletions"].v),
     diff_chunks |-> List(_chunk_diff(IF "diff" \in DOMAIN commit
                                      THEN commit["diff"] ELSE Str(<<>>)))]

\* the text of one category block, kept as its parts: the header's category
\* and count, the one-liners, and the count of the trailing "... and N more"
_create_summary_chunk(commit_type, commits) ==
    [header |-> <<commit_type, Len(commits)>>,
     lines |-> [i \in 1..(IF Len(commits) < SummaryLines
                          THEN Len(commits) ELSE SummaryLines) |->
                   <<commits[i]["hash"], commits[i]["author"],
                     Take(commits[i]["message"].v, SummaryMessageLength)>>],
     more |-> IF Len(commits) > SummaryLines THEN Len(commits) - SummaryLines ELSE 0]

\* the loop of clean_data over grouped_commits.items(), from item i on
RECURSIVE CleanLoop(_, _, _)
CleanLoop(items, i, acc) ==
    IF i > Len(items) THEN acc
    ELSE IF items[i][2].v = <<>> THEN CleanLoop(items, i + 1, acc)
    ELSE LET commits == Take(items[i][2].v, MAX_COMMITS_PER_GROUP) IN
         CleanLoop(items, i + 1,
             [cleaned_commits |-> acc.cleaned_commits \o
                  [j \in 1..Len(commits) |-> _clean_commit(commits[j], items[i][1])],
              summary_chunks |-> Append(acc.summary_chunks,
                                        _create_summary_chunk(items[i][1], commits))])

\* clean_data: its returned dict, or the exception it raises.  The return
\* statement reads grouped_data["stats"]["by_type"] after the loop has run.
clean_data(grouped_data) ==
    LET acc == CleanLoop(grouped_data["grouped_commits"].v, 1,
                         [cleaned_commits |-> <<>>, summary_chunks |-> <<>>])
    IN  IF "by_type" \notin DOMAIN grouped_data["stats"].v
        THEN [raised |-> TRUE, exc |-> "KeyError", key |-> "by_type"]
        ELSE [raised |-> FALSE,
              value |->
                [commits |-> List(acc.cleaned_commits),
                 summary_text |-> Str([chunks |-> acc.summary_chunks]),
                 stats |-> grouped_data["stats"],
                 metadata |-> Dict(
                    [total_commits_analyzed |-> Len(acc.cleaned_commits),
                     commit_types_present |->
                        List(Keys(grouped_data["stats"].v["by_type"]))])]]

-----------------------------------------------------------------------------
(* git_extractor.py *)

\* datetime values: whole hours, counted from 1 January 00:00 of the year the
\* model's timestamps lie in (negative before it)
Datetime(hours) == [t |-> "datetime", hours |-> hours]

RECURSIVE DaysBefore(_)
DaysBefore(mo) == IF mo = 1 THEN 0 ELSE DaysBefore(mo - 1) + DaysIn(mo - 1)

\* datetime.fromisoformat on a text that parses
fromisoformat(text) ==
    Datetime((DaysBefore(text.mo) + text.d - 1) * 24 + text.h)

RECURSIVE MonthOf(_, _)
MonthOf(day, mo) ==
    IF day < DaysBefore(mo) + DaysIn(mo) THEN mo ELSE MonthOf(day, mo + 1)

\* datetime.isoformat, for a datetime of the model's year
isoformat(dt) ==
    LET day == dt.hours \div 24
        mo == MonthOf(day, 1)
    IN  Str([form |-> "iso", mo |-> mo, d |-> day - DaysBefore(mo) + 1,
             h |-> dt.hours % 24])

\* datetime.fromtimestamp: committed_date counts hours from the same origin
fromtimestamp(committed_date) == Datetime(committed_date)

\* datetime.now()
Now == Datetime(40 * 24 + 12)

timedelta(days) == days * 24

\* a text that is no ISO timestamp, given by its characters
Token(chars) == Str([form |-> "text", chars |-> chars])

\* the length of the longest prefix of digits
RECURSIVE DigitPrefix(_)
DigitPrefix(chars) ==
    IF chars = <<>> \/ Digit(Head(chars)) < 0 THEN 0
    ELSE 1 + DigitPrefix(Tail(chars))

\* re.match(r"(\d+)([wmd])", time_str): the two groups, or no match.  The
\* pattern is anchored at the start only.
RelativeMatch(chars) ==
    LET n == DigitPrefix(chars) IN
    IF n >= 1 /\ Len(chars) > n /\ chars[n + 1] \in {"w", "m", "d"}
    THEN [matched |-> TRUE, value |-> DigitsValue(SubSeq(chars, 1, n), 0),
          unit |-> chars[n + 1]]
    ELSE [matched |-> FALSE]

InvalidTimeFormat(time_str) ==
    [raised |-> TRUE, exc |-> "ValueError", text |-> "Invalid time format",
     time_str |-> time_str]

\* _parse_time with the weeks of a token counted as days
_parse_time_WeeksAsDays(time_str) ==
    IF fromisoformat_ok(time_str.v)
    THEN [raised |-> FALSE, value |-> fromisoformat(time_str.v)]
    ELSE LET match == IF time_str.v.form = "text"
                      THEN RelativeMatch(time_str.v.chars)
                      ELSE [matched |-> FALSE]
         IN  IF match.matched
             THEN [raised |-> FALSE,
                   value |-> Datetime(Now.hours -
                       (CASE match.unit = "d" -> timedelta(match.value)
                          [] match.unit = "w" -> timedelta(match.value)
                          [] match.unit = "m" -> timedelta(match.value * 30)))]
             ELSE InvalidTimeFormat(time_str)

_parse_time(time_str) ==
    IF fromisoformat_ok(time_str.v)
    THEN [raised |-> FALSE, value |-> fromisoformat(time_str.v)]
    ELSE LET match == IF time_str.v.form = "text"
                      THEN RelativeMatch(time_str.v.chars)
                      ELSE [matched |-> FALSE]
         IN  IF match.matched
             THEN [raised |-> FALSE,
                   value |-> Datetime(Now.hours -
                       (CASE match.unit = "d" -> timedelta(match.value)
                          [] match.unit = "w" -> timedelta(7 * match.value)
                          [] match.unit = "m" -> timedelta(match.value * 30)))]
             ELSE InvalidTimeFormat(time_str)

\* The repository, as GitPython shows it: `objects` holds the commits, a
\* commit's position in it being its identity; a commit has hexsha, author,
\* committed_date, message, parents (positions), its changed paths with the
\* patch of each, its line counts, and `fault`, which tells what goes wrong
\* when its diff against its first parent is computed: "none", "patch" (the
\* diff with create_patch=True raises) or "tree" (every diff against the
\* parent raises, and so does walking the commit's tree).
\* `branches` and `tags` are lists of <<name, commit>>.

Whitespace == {" ", NewLine}

RECURSIVE LStrip(_)
LStrip(chars) ==
    IF chars # <<>> /\ Head(chars) \in Whitespace THEN LStrip(Tail(chars)) ELSE chars

RECURSIVE RStrip(_)
RStrip(chars) ==
    IF chars # <<>> /\ chars[Len(chars)] \in Whitespace
    THEN RStrip(SubSeq(chars, 1, Len(chars) - 1)) ELSE chars

\* str.strip()
strip(chars) == RStrip(LStrip(chars))

\* "\n".join(texts)
RECURSIVE JoinLines(_)
JoinLines(texts) ==
    IF texts = <<>> THEN <<>>
    ELSE IF Len(texts) = 1 THEN texts[1]
    ELSE texts[1] \o <<NewLine>> \o JoinLines(Tail(texts))

DiffError == [raised |-> TRUE, exc |-> "Exception", message |-> <<"D", "i", "f", "f", " ", "e", "r", "r", "o", "r">>]

_get_changed_files(commit) ==
    IF commit.parents = <<>> THEN [raised |-> FALSE, value |-> <<>>]
    ELSE IF commit.fault = "tree" THEN DiffError
    ELSE [raised |-> FALSE,
          value |-> [i \in 1..Len(commit.changes) |-> Str(commit.changes[i].a_path)]]

_get_commit_diff(commit) ==
    IF commit.fault = "tree" \/ (commit.parents # <<>> /\ commit.fault = "patch")
    THEN DiffError
    ELSE IF commit.parents = <<>>
    THEN [raised |-> FALSE,
          value |-> JoinLines([i \in 1..Len(commit.changes) |->
                                  <<"A", " ">> \o commit.changes[i].a_path])]
    ELSE [raised |-> FALSE,
          value |-> JoinLines([i \in 1..Len(commit.changes) |-> commit.changes[i].diff])]

\* f"Error extracting diff: {str(e)}"
ErrorExtractingDiff(e) == <<"E", "r", "r", "o", "r", " ", "e", "x", "t", "r", "a", "c", "t", "i", "n", "g", " ", "d", "i", "f", "f", ":", " ">> \o e.message

\* the diff text of a commit, as get_commits and _format_commit obtain it
DiffText(commit) ==
    LET diff == _get_commit_diff(commit) IN
    IF diff.raised THEN ErrorExtractingDiff(diff) ELSE diff.value

\* the record get_commits appends for a commit whose changed files were read
CommitRecord(commit, files_changed) ==
    [hash |-> Str(Take(commit.hexsha, 8)),
     author |-> Str(commit.author.name),
     email |-> Str(commit.author.email),
     timestamp |-> isoformat(fromtimestamp(commit.committed_date)),
     message |-> Str(strip(commit.message)),
     files_changed |-> List(files_changed),
     insertions |-> Num(commit.insertions),
     deletions |-> Num(commit.deletions),
     diff |-> Str(DiffText(commit))]

\* every commit reachable from the commit, itself included
RECURSIVE Ancestors(_, _)
Ancestors(objects, id) ==
    {id} \cup UNION {Ancestors(objects, objects[id].parents[k]) :
                        k \in 1..Len(objects[id].parents)}

\* the history walk: of the commits waiting, the one committed last comes
\* next (of two committed in the same hour, the one created last), and its
\* parents join those waiting; hidden commits are walked but not shown
Newest(objects, queue) ==
    CHOOSE id \in queue :
        \A other \in queue :
            \/ objects[id].committed_date > objects[other].committed_date
            \/ /\ objects[id].committed_date = objects[other].committed_date
               /\ id >= other

RECURSIVE WalkQueue(_, _, _, _)
WalkQueue(objects, queue, seen, hidden) ==
    IF queue = {} THEN <<>>
    ELSE LET id == Newest(objects, queue)
             parents == {objects[id].parents[k] : k \in 1..Len(objects[id].parents)}
             rest == WalkQueue(objects, (queue \ {id}) \cup (parents \ seen),
                               seen \cup parents, hidden)
         IN  IF id \in hidden THEN rest ELSE <<id>> \o rest

Lookup(refs, name) == refs[CHOOSE i \in 1..Len(refs) : refs[i][1] = name][2]
Names(refs) == [i \in 1..Len(refs) |-> refs[i][1]]
InList(x, list) == \E i \in 1..Len(list) : list[i] = x

\* git's resolution of a revision name: a branch, else a tag, else nothing
Resolve(repo, name) ==
    IF InList(name, Names(repo.branches))
    THEN [found |-> TRUE, id |-> Lookup(repo.branches, name)]
    ELSE IF InList(name, Names(repo.tags))
    THEN [found |-> TRUE, id |-> Lookup(repo.tags, name)]
    ELSE [found |-> FALSE]

BadRevision(name) == [raised |-> TRUE, exc |-> "GitCommandError", rev |-> name]

\* repo.iter_commits(rev) for a revision name: the commits in walk order
iter_commits(repo, name) ==
    LET tip == Resolve(repo, name) IN
    IF ~tip.found THEN BadRevision(name)
    ELSE [raised |-> FALSE,
          value |-> WalkQueue(repo.objects, {tip.id}, {tip.id}, {})]

\* a loop that passes over a commit older than since and goes on
RECURSIVE GetCommitsLoop_SkipsOld(_, _, _, _, _, _)
GetCommitsLoop_SkipsOld(repo, walk, i, since_dt, until_dt, commits) ==
    IF i > Len(walk) THEN [raised |-> FALSE, value |-> commits]
    ELSE LET commit == repo.objects[walk[i]]
             commit_time == fromtimestamp(commit.committed_date)
         IN  IF \/ since_dt # None /\ commit_time.hours < since_dt.hours
                \/ commit_time.hours > until_dt.hours
             THEN GetCommitsLoop_SkipsOld(repo, walk, i + 1, since_dt, until_dt, commits)
             ELSE LET files == _get_changed_files(commit) IN
                  IF files.raised THEN files
                  ELSE GetCommitsLoop_SkipsOld(repo, walk, i + 1, since_dt, until_dt,
                                      Append(commits, CommitRecord(commit, files.value)))

\* the loop of get_commits over the walk, from position i on
RECURSIVE GetCommitsLoop(_, _, _, _, _, _)
GetCommitsLoop(repo, walk, i, since_dt, until_dt, commits) ==
    IF i > Len(walk) THEN [raised |-> FALSE, value |-> commits]
    ELSE LET commit == repo.objects[walk[i]]
             commit_time == fromtimestamp(commit.committed_date)
         IN  IF since_dt # None /\ commit_time.hours < since_dt.hours
             THEN [raised |-> FALSE, value |-> commits]
             ELSE IF commit_time.hours > until_dt.hours
             THEN GetCommitsLoop(repo, walk, i + 1, since_dt, until_dt, commits)
             ELSE LET files == _get_changed_files(commit) IN
                  IF files.raised THEN files
                  ELSE GetCommitsLoop(repo, walk, i + 1, since_dt, until_dt,
                                      Append(commits, CommitRecord(commit, files.value)))

\* `if since`: None and the empty text are false
Truthy(x) == x # None /\ x # Token(<<>>)

get_commits(repo, since, until, branch_arg) ==
    LET branch == IF branch_arg = None THEN repo.active_branch ELSE branch_arg.v
        since_dt == IF Truthy(since) THEN _parse_time(since)
                    ELSE [raised |-> FALSE, value |-> None]
        until_dt == IF Truthy(until) THEN _parse_time(until)
                    ELSE [raised |-> FALSE, value |-> Now]
        walk == iter_commits(repo, branch)
    IN  IF since_dt.raised THEN since_dt
        ELSE IF until_dt.raised THEN until_dt
        ELSE IF walk.raised THEN walk
        ELSE GetCommitsLoop(repo, walk.value, 1, since_dt.value, until_dt.value, <<>>)

\* _format_commit: the record of a commit, or the exception of the diff it
\* reads outside its try
_format_commit(commit) ==
    LET files == _get_changed_files(commit) IN
    IF files.raised THEN files
    ELSE [raised |-> FALSE, value |-> CommitRecord(commit, files.value)]

\* a list of ids formatted one after the other, up to the first that raises
RECURSIVE FormatAll(_, _, _, _)
FormatAll(repo, ids, i, commits) ==
    IF i > Len(ids) THEN [raised |-> FALSE, value |-> commits]
    ELSE LET formatted == _format_commit(repo.objects[ids[i]]) IN
         IF formatted.raised THEN formatted
         ELSE FormatAll(repo, ids, i + 1, Append(commits, formatted.value))

\* the ids of a walk whose commit lies in the time window: outside of it a
\* commit is passed over, on either side
InTimeWindow(repo, walk, since_dt, until_dt) ==
    SelectSeq(walk, LAMBDA id :
        /\ ~(since_dt # None /\ repo.objects[id].committed_date < since_dt.hours)
        /\ ~(repo.objects[id].committed_date > until_dt.hours))

\* the two bounds of _extract_commits_in_range, parsed before it walks: the
\* first exception, if one of them does not parse
TimeBounds(since, until) ==
    LET since_dt == IF Truthy(since) THEN _parse_time(since)
                    ELSE [raised |-> FALSE, value |-> None]
        until_dt == IF Truthy(until) THEN _parse_time(until)
                    ELSE [raised |-> FALSE, value |-> Now]
    IN  IF since_dt.raised THEN since_dt
        ELSE IF until_dt.raised THEN until_dt
        ELSE [raised |-> FALSE, since_dt |-> since_dt.value, until_dt |-> until_dt.value]

\* _extract_commits_in_range for the range exclude..include
_extract_commits_in_range(repo, exclude, include, since, until) ==
    LET bounds == TimeBounds(since, until)
        tip == Lookup(repo.branches, include)
        walk == WalkQueue(repo.objects, {tip}, {tip},
                          Ancestors(repo.objects, Lookup(repo.branches, exclude)))
    IN  IF bounds.raised THEN bounds
        ELSE FormatAll(repo, InTimeWindow(repo, walk, bounds.since_dt, bounds.until_dt),
                       1, <<>>)

\* _extract_commits_from_point: the first max_count commits of the walk
_extract_commits_from_point(repo, start_commit, max_count) ==
    FormatAll(repo, Take(WalkQueue(repo.objects, {start_commit}, {start_commit}, {}),
                         max_count), 1, <<>>)

\* the ids of a set, the last created first
RECURSIVE Descending(_)
Descending(ids) ==
    IF ids = {} THEN <<>>
    ELSE LET top == CHOOSE id \in ids : \A other \in ids : id >= other
         IN  <<top>> \o Descending(ids \ {top})

\* a merge base that is the oldest common ancestor
merge_base_Oldest(repo, base_branch, compare_branch) ==
    LET common == Ancestors(repo.objects, Lookup(repo.branches, base_branch))
                    \cap Ancestors(repo.objects, Lookup(repo.branches, compare_branch))
    IN  Descending({id \in common : \A other \in common : id <= other})

\* repo.merge_base: the common ancestors no other common ancestor descends
\* from; none for histories that do not meet
merge_base(repo, base_branch, compare_branch) ==
    LET common == Ancestors(repo.objects, Lookup(repo.branches, base_branch))
                    \cap Ancestors(repo.objects, Lookup(repo.branches, compare_branch))
    IN  Descending({id \in common :
                       \A other \in common \ {id} : id \notin Ancestors(repo.objects, other)})

BranchNotFound(text, name) ==
    [raised |-> TRUE, exc |-> "ValueError", text |-> text, name |-> name]

NoCommonAncestor(base_branch, compare_branch) ==
    [raised |-> TRUE, exc |-> "ValueError", text |-> "No common ancestor found",
     base_branch |-> base_branch, compare_branch |-> compare_branch]

\* the outcome of a step together with the repository operations made so far
WithCalls(result, repo_calls) ==
    [f \in DOMAIN result \cup {"repo_calls"} |->
        IF f = "repo_calls" THEN repo_calls ELSE result[f]]

\* compare_branches: the dict it returns or the exception it raises, with the
\* operations it made on the repository, in order
compare_branches(repo, base_branch, compare_branch, since, until, context_commits) ==
    IF ~InList(base_branch, Names(repo.branches))
    THEN WithCalls(BranchNotFound("Base branch not found", base_branch), <<"branches">>)
    ELSE IF ~InList(compare_branch, Names(repo.branches))
    THEN WithCalls(BranchNotFound("Compare branch not found", compare_branch), <<"branches", "branches">>)
    ELSE LET merge_bases == merge_base(repo, base_branch, compare_branch)
             checked == <<"branches", "branches", "merge_base">>
         IN
         IF merge_bases = <<>>
         THEN WithCalls(NoCommonAncestor(base_branch, compare_branch), checked)
         ELSE LET merge_base_commit == merge_bases[1]
                  base_only_commits ==
                      _extract_commits_in_range(repo, compare_branch, base_branch,
                                                since, until)
                  compare_only_commits ==
                      _extract_commits_in_range(repo, base_branch, compare_branch,
                                                since, until)
                  context_commit_list ==
                      _extract_commits_from_point(repo, merge_base_commit, context_commits)
                  formatted == _format_commit(repo.objects[merge_base_commit])
              IN
              IF TimeBounds(since, until).raised
              THEN WithCalls(TimeBounds(since, until), checked)
              ELSE IF base_only_commits.raised
              THEN WithCalls(base_only_commits, checked \o <<"iter_commits">>)
              ELSE IF compare_only_commits.raised
              THEN WithCalls(compare_only_commits,
                             checked \o <<"iter_commits", "iter_commits">>)
              ELSE IF context_commit_list.raised
              THEN WithCalls(context_commit_list,
                             checked \o <<"iter_commits", "iter_commits", "iter_commits">>)
              ELSE IF formatted.raised
              THEN WithCalls(formatted,
                             checked \o <<"iter_commits", "iter_commits", "iter_commits">>)
              ELSE [raised |-> FALSE,
                    repo_calls |-> checked \o <<"iter_commits", "iter_commits", "iter_commits">>,
                    value |->
                      [base_branch |-> Str(base_branch),
                       compare_branch |-> Str(compare_branch),
                       merge_base |-> Dict(formatted.value),
                       base_only_commits |-> List(base_only_commits.value),
                       compare_only_commits |-> List(compare_only_commits.value),
                       context_commits |-> List(context_commit_list.value)]]

-----------------------------------------------------------------------------
(* branch_comparator.py *)

\* list(set(...)): a list of the set's members in the order the set yields
\* them, which the program does not determine
UnorderedList(members) == [t |-> "list", members |-> members]

PyRaise(exc, at) == [raised |-> TRUE, exc |-> exc, at |-> at]

\* the rendering of the time since the merge base: the count and the unit
\* (with its plural s), or "recently"
TimeSince(time_diff_hours) ==
    LET days == time_diff_hours \div 24
        seconds == (time_diff_hours % 24) * 3600
        Ago(count, unit) == [count |-> count, unit |-> unit, plural |-> count # 1]
    IN  IF days > 30 THEN Ago(days \div 30, "month")
        ELSE IF days > 0 THEN Ago(days, "day")
        ELSE IF seconds >= 3600 THEN Ago(seconds \div 3600, "hour")
        ELSE [unit |-> "recently"]

\* the metrics with the counts of the commits the digest keeps
_calculate_divergence_metrics_OfKept(base_commits, compare_commits, merge_base_dict) ==
    IF merge_base_dict.t # "dict"
    THEN PyRaise("TypeError", "merge_base['timestamp']")
    ELSE IF "timestamp" \notin DOMAIN merge_base_dict.v
    THEN PyRaise("KeyError", "merge_base['timestamp']")
    ELSE IF merge_base_dict.v["timestamp"].t # "str"
    THEN PyRaise("TypeError", "datetime.fromisoformat")
    ELSE IF ~fromisoformat_ok(merge_base_dict.v["timestamp"].v)
    THEN PyRaise("ValueError", "datetime.fromisoformat")
    ELSE [raised |-> FALSE,
          value |-> Dict(
            [time_since_divergence |->
                 TimeSince(Now.hours - fromisoformat(merge_base_dict.v["timestamp"].v).hours),
             base_commit_count |-> Num(Len(Take(base_commits, MAX_COMMITS_PER_GROUP))),
             compare_commit_count |-> Num(Len(Take(compare_commits, MAX_COMMITS_PER_GROUP))),
             base_contributors |->
                 UnorderedList({base_commits[i]["author"] : i \in 1..Len(base_commits)}),
             compare_contributors |->
                 UnorderedList({compare_commits[i]["author"] :
                                   i \in 1..Len(compare_commits)})])]

_calculate_divergence_metrics(base_commits, compare_commits, merge_base_dict) ==
    IF merge_base_dict.t # "dict"
    THEN PyRaise("TypeError", "merge_base['timestamp']")
    ELSE IF "timestamp" \notin DOMAIN merge_base_dict.v
    THEN PyRaise("KeyError", "merge_base['timestamp']")
    ELSE IF merge_base_dict.v["timestamp"].t # "str"
    THEN PyRaise("TypeError", "datetime.fromisoformat")
    ELSE IF ~fromisoformat_ok(merge_base_dict.v["timestamp"].v)
    THEN PyRaise("ValueError", "datetime.fromisoformat")
    ELSE [raised |-> FALSE,
          value |-> Dict(
            [time_since_divergence |->
                 TimeSince(Now.hours - fromisoformat(merge_base_dict.v["timestamp"].v).hours),
             base_commit_count |-> Num(Len(base_commits)),
             compare_commit_count |-> Num(Len(compare_commits)),
             base_contributors |->
                 UnorderedList({base_commits[i]["author"] : i \in 1..Len(base_commits)}),
             compare_contributors |->
                 UnorderedList({compare_commits[i]["author"] :
                                   i \in 1..Len(compare_commits)})])]

\* the order in which sorted() compares the characters of file paths
CharOrder ==
    <<"-", ".", "/", "0", "1", "2", "3", "4", "5", "6", "7", "8", "9",
       "A", "B", "C", "D", "E", "F", "G", "H", "I", "J", "K", "L", "M",
       "N", "O", "P", "Q", "R", "S", "T", "U", "V", "W", "X", "Y", "Z",
       "_", "a", "b", "c", "d", "e", "f", "g", "h", "i", "j", "k", "l",
       "m", "n", "o", "p", "q", "r", "s", "t", "u", "v", "w", "x", "y",
       "z">>

RECURSIVE TextLess(_, _)
TextLess(x, y) ==
    LET CharRank(c) == CHOOSE i \in 1..Len(CharOrder) : CharOrder[i] = c
    IN  IF x = <<>> THEN y # <<>>
        ELSE IF y = <<>> THEN FALSE
        ELSE IF Head(x) = Head(y) THEN TextLess(Tail(x), Tail(y))
        ELSE CharRank(Head(x)) < CharRank(Head(y))

\* sorted(list(texts)) for a set of texts
RECURSIVE Sorted(_)
Sorted(texts) ==
    IF texts = {} THEN <<>>
    ELSE LET first == CHOOSE x \in texts :
                          \A y \in texts : x = y \/ TextLess(x.v, y.v)
         IN  <<first>> \o Sorted(texts \ {first})

\* files.update(commit.get("files_changed", [])) over the commits
FilesOf(commits) ==
    UNION {IF "files_changed" \in DOMAIN commits[i]
           THEN {commits[i]["files_changed"].v[k] :
                    k \in 1..Len(commits[i]["files_changed"].v)}
           ELSE {} : i \in 1..Len(commits)}

_analyze_file_changes(base_commits, compare_commits) ==
    LET base_files == FilesOf(base_commits)
        compare_files == FilesOf(compare_commits)
    IN  Dict([base_only_files |-> List(Sorted(base_files \ compare_files)),
              compare_only_files |-> List(Sorted(compare_files \ base_files)),
              shared_files |-> List(Sorted(base_files \cap compare_files))])

\* process_comparison: the two commit lists are lists (compare() has checked
\* that); the other arguments are whatever the extraction held
process_comparison(base_commits, compare_commits, context_commits, merge_base_dict, base_branch_name, compare_branch_name) ==
    LET base_grouped == group_commits(base_commits.v)
        compare_grouped == group_commits(compare_commits.v)
        divergence_metrics ==
            _calculate_divergence_metrics(base_commits.v, compare_commits.v, merge_base_dict)
    IN  IF divergence_metrics.raised THEN divergence_metrics
        ELSE [raised |-> FALSE,
              value |->
                [base_branch |-> base_branch_name,
                 compare_branch |-> compare_branch_name,
                 merge_base |-> merge_base_dict,
                 base_only_commits |-> base_commits,
                 compare_only_commits |-> compare_commits,
                 context_commits |-> context_commits,
                 divergence_metrics |-> divergence_metrics.value,
                 base_stats |-> base_grouped.stats,
                 compare_stats |-> compare_grouped.stats,
                 file_analysis |->
                     _analyze_file_changes(base_commits.v, compare_commits.v)]]

-----------------------------------------------------------------------------
(* data_cleaner.py: the comparison digest *)

upper(s) ==
    LET UpperChar(c) ==
            IF \E i \in 1..26 : LowerLetters[i] = c
            THEN UpperLetters[CHOOSE i \in 1..26 : LowerLetters[i] = c]
            ELSE c
    IN  [i \in 1..Len(s) |-> UpperChar(s[i])]

\* sorted(by_type.items(), key=count, reverse=True): the largest count first,
\* equal counts in the order of the dict
RECURSIVE ByCountDescending(_)
ByCountDescending(items) ==
    IF items = <<>> THEN <<>>
    ELSE LET top == CHOOSE i \in 1..Len(items) :
                       /\ \A j \in 1..Len(items) : items[j][2] <= items[i][2]
                       /\ \A j \in 1..(i - 1) : items[j][2] < items[i][2]
         IN  <<items[top]>> \o
             ByCountDescending(SubSeq(items, 1, top - 1) \o
                               SubSeq(items, top + 1, Len(items)))

\* _format_stats: per type its count and the total the percentage is taken
\* of, or "No commits"
_format_stats(stats) ==
    LET by_type == IF "by_type" \in DOMAIN stats.v THEN stats.v["by_type"] ELSE <<>>
    IN  IF by_type = <<>> THEN [lit |-> "No commits"]
        ELSE [parts |-> [i \in 1..Len(by_type) |->
                           [commit_type |-> ByCountDescending(by_type)[i][1],
                            count |-> ByCountDescending(by_type)[i][2],
                            of |-> stats.v["total_commits"]]]]

_format_file_list(files) ==
    IF files = <<>> THEN [lit |-> "None"] ELSE [lines |-> files]

\* _format_commits_by_type: every commit is put under 'other'; one line
\* "- [hash] author: message[:80]" for each of the first five
_format_commits_by_type(commits, stats) ==
    IF commits = <<>> THEN [lit |-> "No commits"]
    ELSE [header |-> <<"OTHER", Len(commits)>>,
          lines |-> [i \in 1..Len(Take(commits, 5)) |->
                        <<commits[i]["hash"], commits[i]["author"],
                          Take(commits[i]["message"].v, 80)>>],
          more |-> IF Len(commits) > 5 THEN Len(commits) - 5 ELSE 0]

\* _format_commit_list: one line for each of the first ten
_format_commit_list(commits) ==
    IF commits = <<>> THEN [lit |-> "No commits"]
    ELSE [lines |-> [i \in 1..Len(Take(commits, 10)) |->
                        <<commits[i]["hash"], commits[i]["author"],
                          Take(commits[i]["message"].v, 80)>>],
          more |-> IF Len(commits) > 10 THEN Len(commits) - 10 ELSE 0]

\* the digest, kept as the values its template interpolates
_create_comparison_summary_text(base_branch, compare_branch, merge_base_dict, base_commits, compare_commits, context_commits, divergence_metrics, base_stats, compare_stats, file_analysis) ==
    [base_branch |-> base_branch,
     compare_branch |-> compare_branch,
     diverged_at |-> <<merge_base_dict.v["hash"], merge_base_dict.v["timestamp"]>>,
     time_since_divergence |-> divergence_metrics.v.time_since_divergence,
     base_line |-> <<divergence_metrics.v.base_commit_count,
                     Cardinality(divergence_metrics.v.base_contributors.members)>>,
     compare_line |-> <<divergence_metrics.v.compare_commit_count,
                        Cardinality(divergence_metrics.v.compare_contributors.members)>>,
     base_distribution |-> _format_stats(base_stats),
     compare_distribution |-> _format_stats(compare_stats),
     file_counts |-> <<Len(file_analysis.v.base_only_files.v),
                       Len(file_analysis.v.compare_only_files.v),
                       Len(file_analysis.v.shared_files.v)>>,
     shared_files |-> _format_file_list(Take(file_analysis.v.shared_files.v, 10)),
     base_unique |-> <<upper(base_branch.v), Len(base_commits),
                       _format_commits_by_type(base_commits, base_stats)>>,
     compare_unique |-> <<upper(compare_branch.v), Len(compare_commits),
                          _format_commits_by_type(compare_commits, compare_stats)>>,
     shared_context |-> <<Len(context_commits), _format_commit_list(context_commits)>>]

\* clean_comparison_data: the dict it returns, or the TypeError of adding a
\* context_commits that is no list to the two lists
clean_comparison_data(comparison_data) ==
    IF comparison_data.context_commits.t # "list"
    THEN PyRaise("TypeError", "base_commits + compare_commits + context_commits")
    ELSE
    LET \* commit["message"] = commit["message"][:MAX_MESSAGE_LENGTH] + "..."
        TruncateMessage(commit) ==
            IF Len(commit["message"].v) > MAX_MESSAGE_LENGTH
            THEN SetKey(commit, "message",
                        Str(Take(commit["message"].v, MAX_MESSAGE_LENGTH) \o Ellipsis))
            ELSE commit
        cut(commits) == [i \in 1..Len(commits) |-> TruncateMessage(commits[i])]
        base_commits ==
            cut(Take(comparison_data.base_only_commits.v, MAX_COMMITS_PER_GROUP))
        compare_commits ==
            cut(Take(comparison_data.compare_only_commits.v, MAX_COMMITS_PER_GROUP))
        context_commits == cut(comparison_data.context_commits.v)
        summary_text ==
            _create_comparison_summary_text(
                comparison_data.base_branch, comparison_data.compare_branch,
                comparison_data.merge_base, base_commits, compare_commits,
                context_commits, comparison_data.divergence_metrics,
                comparison_data.base_stats, comparison_data.compare_stats,
                comparison_data.file_analysis)
        replaced == [base_only_commits |-> List(base_commits),
                     compare_only_commits |-> List(compare_commits),
                     context_commits |-> List(context_commits),
                     summary_text |-> Str(summary_text)]
        \* the slices are new lists of the same commit dicts, so the dict
        \* received holds the commits that the loop has written to
        written(all, head) == head \o SubSeq(all, Len(head) + 1, Len(all))
    IN  [raised |-> FALSE,
         value |-> [f \in DOMAIN comparison_data \cup DOMAIN replaced |->
                       IF f \in DOMAIN replaced THEN replaced[f]
                       ELSE comparison_data[f]],
         comparison_data |->
             [comparison_data EXCEPT
                 !.base_only_commits =
                     List(written(comparison_data.base_only_commits.v, base_commits)),
                 !.compare_only_commits =
                     List(written(comparison_data.compare_only_commits.v, compare_commits)),
                 !.context_commits = List(context_commits)]]

-----------------------------------------------------------------------------
(* parser/__init__.py: RepoParser *)

\* ValidationReport.to_dict: the two counts are copied; 'warnings' is the
\* report's own list object, not a copy of it
WarningsList == [ref |-> "validation_report.warnings"]

to_dict(report) ==
    [warnings |-> WarningsList,
     skipped_commits |-> report.skipped_commits,
     total_commits_processed |-> report.total_commits_processed]

\* the present content of the list a report dict's 'warnings' refers to
Deref(ref) == validation_report.warnings

\* err = ValidationError(msg); err.report = ...; err.stage = ...
ValidationError(msg, report, stage) ==
    [exc |-> "ValidationError", msg |-> msg, report |-> to_dict(report), stage |-> stage]

\* the except clause of parse that takes over the report but not the stage
Reraise_WithoutStage(e) ==
    LET new_err == [exc |-> "ValidationError",
                    msg |-> [text |-> "Pipeline validation error", inner |-> e.msg]]
    IN  IF "report" \in DOMAIN e THEN SetKey(new_err, "report", e.report) ELSE new_err

\* the except clause of parse: a new ValidationError that takes over the
\* report and the stage of the one caught, where it has them
Reraise(e) ==
    LET new_err == [exc |-> "ValidationError",
                    msg |-> [text |-> "Pipeline validation error", inner |-> e.msg]]
        with_report == IF "report" \in DOMAIN e
                       THEN SetKey(new_err, "report", e.report) ELSE new_err
    IN  IF "stage" \in DOMAIN e THEN SetKey(with_report, "stage", e.stage)
        ELSE with_report

Raised(e) == [kind |-> "raised", error |-> e]
Returned(x) == [kind |-> "returned", value |-> x]

\* the stand-ins the integration tests put in place of CommitGrouper and
\* DataCleaner: a grouper whose output lacks 'stats', a cleaner whose output
\* is well-formed, and a cleaner whose output lacks 'commits'
StubGrouperNoStats(commits) ==
    [grouped_commits |-> Dict(<< <<"feature", List(commits)>> >>)]

StubCleanerValid(grouped_data) ==
    [raised |-> FALSE,
     value |-> [commits |-> List(<<>>),
                summary_text |-> Str([lit |-> "## Summary"]),
                stats |-> Dict([total_commits |-> 1]),
                metadata |-> Dict([total_commits_analyzed |-> 1])]]

StubCleanerNoCommits(grouped_data) ==
    [raised |-> FALSE,
     value |-> [summary_text |-> Str([lit |-> "Summary"]),
                stats |-> Dict(<<>>),
                metadata |-> Dict(<<>>)]]

GrouperKinds == {"CommitGrouper", "StubGrouperNoStats"}
CleanerKinds == {"DataCleaner", "StubCleanerValid", "StubCleanerNoCommits"}

\* self.grouper.group_commits(...)
GrouperCall(commits) ==
    IF grouper = "CommitGrouper" THEN group_commits(commits)
    ELSE StubGrouperNoStats(commits)

\* self.cleaner.clean_data(...)
CleanerCall(grouped_data) ==
    CASE cleaner = "DataCleaner" -> clean_data(grouped_data)
      [] cleaner = "StubCleanerValid" -> StubCleanerValid(grouped_data)
      [] OTHER -> StubCleanerNoCommits(grouped_data)

\* {c["hash"]: [c] for c in validated_commits}: a hash seen again keeps its
\* place and takes the later commit
RECURSIVE PerCommit(_, _, _)
PerCommit(commits, i, acc) ==
    IF i > Len(commits) THEN acc
    ELSE PerCommit(commits, i + 1, Put(acc, commits[i]["hash"], List(<<commits[i]>>)))

FallbackGrouped(commits) ==
    [grouped_commits |-> Dict(PerCommit(commits, 1, <<>>)),
     stats |-> Dict([groups |-> Len(commits)])]

PartialSummary == "Partial summary (cleaner validation failed)"

\* the partial result with stats filled in rather than left empty
PartialResult_WithStats(commits, report) ==
    [commits |-> List(commits),
     summary_text |-> Str([lit |-> PartialSummary]),
     stats |-> Dict([total_commits |-> Len(commits)]),
     metadata |-> Dict([validation_report |-> to_dict(report)])]

PartialResult(commits, report) ==
    [commits |-> List(commits),
     summary_text |-> Str([lit |-> PartialSummary]),
     stats |-> Dict(<<>>),
     metadata |-> Dict([validation_report |-> to_dict(report)])]

\* the cleaned data returned as the cleaner built it, no report attached
AttachReport_Forgotten(cleaned_data, report) == cleaned_data

\* cleaned['metadata']['validation_report'] = self.validation_report.to_dict()
AttachReport(cleaned_data, report) ==
    [cleaned_data EXCEPT !["metadata"] =
        Dict(SetKey(cleaned_data["metadata"].v, "validation_report", to_dict(report)))]

Called(op) == \E i \in 1..Len(calls) : calls[i] = op

EmptyRunLog == [warnings |-> <<>>, skipped |-> 0,
                grouper_error |-> Nothing, cleaner_error |-> Nothing]

-----------------------------------------------------------------------------
(* The commits the extractor hands to the pipeline *)

MaxCommits == 2     \* longest commit list one get_commits call returns
MaxRuns == 2        \* parse() calls on one RepoParser

SeqsUpTo(S, n) == UNION {[1..k -> S] : k \in 0..n}

\* a history walk meets every commit once
NoRepeat(s) == \A i \in 1..Len(s) : \A j \in 1..Len(s) : i # j => s[i] # s[j]

IsoTime(mo, d, h) == Str([form |-> "iso", mo |-> mo, d |-> d, h |-> h])

\* a full record, as GitExtractor.get_commits builds it
CommitA ==
    [hash |-> Str(<<"a", "1", "b", "2", "c", "3", "d", "4">>), author |-> Str(<<"A", "l">>),
     email |-> Str(<<"a", "l", "@", "x">>), timestamp |-> IsoTime(1, 10, 10),
     message |-> Str(<<"f", "e", "a", "t", ":", " ", "x">>),
     files_changed |-> List(<<"f.py">>), insertions |-> Num(10),
     deletions |-> Num(5), diff |-> Str(<<"+", "x">>)]

\* only the required fields, as the tests' commits have them
CommitB ==
    [hash |-> Str(<<"b", "2", "c", "3", "d", "4", "e", "5">>), author |-> Str(<<"B", "o">>),
     timestamp |-> IsoTime(1, 11, 10), message |-> Str(<<"f", "i", "x", ":", " ", "y">>)]

\* another commit whose abbreviated hash (hexsha[:8]) is that of CommitA
CommitC ==
    [hash |-> Str(<<"a", "1", "b", "2", "c", "3", "d", "4">>), author |-> Str(<<"A", "l", "i", "c", "e">>),
     email |-> Str(<<"a", "l", "@", "x">>), timestamp |-> IsoTime(1, 12, 10),
     message |-> Str(<<"w", "i", "p">>)]

\* no message and no timestamp: dropped by validate_commits
CommitX ==
    [hash |-> Str(<<"b", "a", "d", "0", "0", "0", "0", "0">>), author |-> Str(<<"B", "o", "b">>)]

PipelineCommits == {CommitA, CommitB, CommitC, CommitX}

-----------------------------------------------------------------------------
(* RepoParser.__init__ and RepoParser.parse, one action per step *)

DefaultPolicy == "raise"
PolicyArgs == {"omitted", "raise", "fallback"}

Init ==
    /\ policy_arg \in PolicyArgs
    /\ on_validation_error = IF policy_arg = "omitted" THEN DefaultPolicy ELSE policy_arg
    /\ grouper \in GrouperKinds
    /\ cleaner \in CleanerKinds
    /\ validation_report = NewReport
    /\ pc = "idle"
    /\ raw_commits = <<>>
    /\ validated_commits = <<>>
    /\ grouped = Nothing
    /\ cleaned = Nothing
    /\ outcome = Nothing
    /\ calls = <<>>
    /\ runs = 0
    /\ run_log = EmptyRunLog
    /\ arg = [op |-> "none", input |-> <<>>]
    /\ ret = Nothing

Idle == pc \in {"idle", "returned", "raised"}

\* parse() is called and self.extractor.get_commits returns a list
Extract ==
    /\ Idle
    /\ runs < MaxRuns
    /\ \E commits \in SeqsUpTo(PipelineCommits, MaxCommits) :
          /\ NoRepeat(commits)
          /\ raw_commits' = commits
    /\ pc' = "extracted"
    /\ runs' = runs + 1
    /\ calls' = <<"get_commits">>
    /\ validated_commits' = <<>>
    /\ grouped' = Nothing
    /\ cleaned' = Nothing
    /\ outcome' = Nothing
    /\ run_log' = EmptyRunLog
    /\ UNCHANGED <<policy_arg, on_validation_error, grouper, cleaner,
                   validation_report, arg, ret>>

\* parse() is called and self.extractor.get_commits raises (a bad time
\* specification, an unknown branch): no except clause of parse catches it
ExtractRaises ==
    /\ Idle
    /\ runs < MaxRuns
    /\ \E e \in {"ValueError", "GitCommandError"} :
          outcome' = Raised([exc |-> e])
    /\ pc' = "raised"
    /\ runs' = runs + 1
    /\ calls' = <<"get_commits">>
    /\ raw_commits' = <<>>
    /\ validated_commits' = <<>>
    /\ grouped' = Nothing
    /\ cleaned' = Nothing
    /\ run_log' = EmptyRunLog
    /\ UNCHANGED <<policy_arg, on_validation_error, grouper, cleaner,
                   validation_report, arg, ret>>

\* validated_commits = validate_commits(raw_commits, self.validation_report)
Validate ==
    /\ pc = "extracted"
    /\ LET res == validate_commits(raw_commits, validation_report) IN
         /\ validated_commits' = res.valid
         /\ validation_report' = res.report
         /\ run_log' = [run_log EXCEPT
               !.warnings = SubSeq(res.report.warnings,
                                   Len(validation_report.warnings) + 1,
                                   Len(res.report.warnings)),
               !.skipped = res.report.skipped_commits
                             - validation_report.skipped_commits]
    /\ pc' = "validated"
    /\ calls' = Append(calls, "validate_commits")
    /\ UNCHANGED <<policy_arg, on_validation_error, grouper, cleaner, raw_commits,
                   grouped, cleaned, outcome, runs, arg, ret>>

\* if not validated_commits: raise ValidationError, stage "commits"
NoValidCommits ==
    /\ pc = "validated"
    /\ validated_commits = <<>>
    /\ outcome' = Raised(Reraise(ValidationError(
                      [text |-> "No valid commits found after validation"],
                      validation_report, "commits")))
    /\ pc' = "raised"
    /\ UNCHANGED <<policy_arg, on_validation_error, grouper, cleaner,
                   validation_report, raw_commits, validated_commits, grouped,
                   cleaned, calls, runs, run_log, arg, ret>>

\* the grouper called without the check for an empty validated list
Group_Unchecked ==
    /\ pc = "validated"
    /\ grouped' = GrouperCall(validated_commits)
    /\ calls' = Append(calls, "group_commits")
    /\ pc' = "grouped"
    /\ UNCHANGED <<policy_arg, on_validation_error, grouper, cleaner,
                   validation_report, raw_commits, validated_commits, cleaned,
                   outcome, runs, run_log, arg, ret>>

\* grouped = self.grouper.group_commits(validated_commits)
Group ==
    /\ pc = "validated"
    /\ validated_commits # <<>>
    /\ grouped' = GrouperCall(validated_commits)
    /\ calls' = Append(calls, "group_commits")
    /\ pc' = "grouped"
    /\ UNCHANGED <<policy_arg, on_validation_error, grouper, cleaner,
                   validation_report, raw_commits, validated_commits, cleaned,
                   outcome, runs, run_log, arg, ret>>

GrouperFailure(error_msg) == [text |-> "Grouper output validation failed", inner |-> error_msg]
CleanerFailure(error_msg) == [text |-> "Cleaner output validation failed", inner |-> error_msg]

\* is_valid, error_msg = validate_grouped_data(grouped) and the branch on it
CheckGrouped ==
    /\ pc = "grouped"
    /\ LET res == validate_grouped_data(grouped)
           msg == GrouperFailure(res[2])
       IN  IF res[1]
           THEN /\ pc' = "classified"
                /\ UNCHANGED <<validation_report, grouped, outcome, run_log>>
           ELSE IF on_validation_error = "fallback"
           THEN /\ validation_report' =
                     add_warning(validation_report,
                         [msg EXCEPT !.text = "Grouper output validation failed (falling back to per-commit grouping)"])
                /\ run_log' = [run_log EXCEPT
                     !.warnings = Append(@,
                         [msg EXCEPT !.text = "Grouper output validation failed (falling back to per-commit grouping)"]),
                     !.grouper_error = res[2]]
                /\ grouped' = FallbackGrouped(validated_commits)
                /\ pc' = "classified"
                /\ UNCHANGED outcome
           ELSE /\ outcome' = Raised(Reraise(ValidationError(msg, validation_report, "grouper")))
                /\ run_log' = [run_log EXCEPT !.grouper_error = res[2]]
                /\ pc' = "raised"
                /\ UNCHANGED <<validation_report, grouped>>
    /\ UNCHANGED <<policy_arg, on_validation_error, grouper, cleaner, raw_commits,
                   validated_commits, cleaned, calls, runs, arg, ret>>

\* the reducer called on the classifier's output before that is checked
Clean_BeforeCheck ==
    /\ pc = "grouped"
    /\ calls' = Append(calls, "clean_data")
    /\ LET res == CleanerCall(grouped) IN
         IF res.raised
         THEN /\ outcome' = Raised([exc |-> res.exc, key |-> res.key])
              /\ pc' = "raised"
              /\ UNCHANGED cleaned
         ELSE /\ cleaned' = res.value
              /\ pc' = "cleaned"
              /\ UNCHANGED outcome
    /\ UNCHANGED <<policy_arg, on_validation_error, grouper, cleaner,
                   validation_report, raw_commits, validated_commits, grouped,
                   runs, run_log, arg, ret>>

\* cleaned = self.cleaner.clean_data(grouped); an exception raised inside it
\* is no ValidationError and leaves parse as it is
Clean ==
    /\ pc = "classified"
    /\ calls' = Append(calls, "clean_data")
    /\ LET res == CleanerCall(grouped) IN
         IF res.raised
         THEN /\ outcome' = Raised([exc |-> res.exc, key |-> res.key])
              /\ pc' = "raised"
              /\ UNCHANGED cleaned
         ELSE /\ cleaned' = res.value
              /\ pc' = "cleaned"
              /\ UNCHANGED outcome
    /\ UNCHANGED <<policy_arg, on_validation_error, grouper, cleaner,
                   validation_report, raw_commits, validated_commits, grouped,
                   runs, run_log, arg, ret>>

\* is_valid, error_msg = validate_cleaned_data(cleaned) and the branch on it,
\* up to the return of parse
CheckCleaned ==
    /\ pc = "cleaned"
    /\ LET res == validate_cleaned_data(cleaned)
           msg == CleanerFailure(res[2])
           warned == add_warning(validation_report,
                         [msg EXCEPT !.text = "Cleaner output validation failed (returning partial cleaned data)"])
       IN  IF res[1]
           THEN /\ cleaned' = AttachReport(cleaned, validation_report)
                /\ outcome' = Returned(cleaned')
                /\ pc' = "returned"
                /\ UNCHANGED <<validation_report, run_log>>
           ELSE IF on_validation_error = "fallback"
           THEN /\ validation_report' = warned
                /\ run_log' = [run_log EXCEPT
                     !.warnings = Append(@, warned.warnings[Len(warned.warnings)]),
                     !.cleaner_error = res[2]]
                /\ outcome' = Returned(PartialResult(validated_commits, warned))
                /\ pc' = "returned"
                /\ UNCHANGED cleaned
           ELSE /\ outcome' = Raised(Reraise(ValidationError(msg, validation_report, "cleaner")))
                /\ run_log' = [run_log EXCEPT !.cleaner_error = res[2]]
                /\ pc' = "raised"
                /\ UNCHANGED <<validation_report, cleaned>>
    /\ UNCHANGED <<policy_arg, on_validation_error, grouper, cleaner, raw_commits,
                   validated_commits, grouped, calls, runs, arg, ret>>

Next ==
    \/ Extract
    \/ ExtractRaises
    \/ Validate
    \/ NoValidCommits
    \/ Group
    \/ CheckGrouped
    \/ Clean
    \/ CheckCleaned

Spec == Init /\ [][Next]_vars

-----------------------------------------------------------------------------
(* RepoParser.parse with a caller that keeps what a run gave it: ret holds *)
(* the report dict of that result or error and what its warnings read     *)
(* when the caller received it                                            *)

\* the caller keeps the report attached to the outcome of the run that has
\* just ended
KeepReport ==
    /\ pc \in {"returned", "raised"}
    /\ ret = Nothing
    /\ \/ /\ outcome.kind = "returned"
          /\ ret' = [report |-> outcome.value["metadata"].v["validation_report"],
                     warnings_read |-> validation_report.warnings]
       \/ /\ outcome.kind = "raised"
          /\ "report" \in DOMAIN outcome.error
          /\ ret' = [report |-> outcome.error.report,
                     warnings_read |-> validation_report.warnings]
    /\ UNCHANGED <<pipeline_vars, arg>>

NextKept == Next \/ KeepReport

SpecKept == Init /\ [][NextKept]_vars

-----------------------------------------------------------------------------
(* The stage operations called on their own, on inputs drawn from bounded *)
(* sets: arg is the input, ret the result once the operation has run.     *)

\* the pipeline variables while no RepoParser is in use
NoPipeline ==
    /\ policy_arg = "omitted"
    /\ on_validation_error = DefaultPolicy
    /\ grouper = "CommitGrouper"
    /\ cleaner = "DataCleaner"
    /\ validation_report = NewReport
    /\ pc = "idle"
    /\ raw_commits = <<>>
    /\ validated_commits = <<>>
    /\ grouped = Nothing
    /\ cleaned = Nothing
    /\ outcome = Nothing
    /\ calls = <<>>
    /\ runs = 0
    /\ run_log = EmptyRunLog

Input(op, x) == [op |-> op, input |-> x]

(* CommitGrouper._classify_commit on messages built from a few words *)

MaxWords == 4       \* words per message

Words == {<<"f", "e", "a", "t">>,
          <<"(", "a", ")">>,
          <<":">>,
          <<" ">>,
          <<"a", "d", "d">>,
          <<"t", "e", "s", "t">>,
          <<"F", "I", "X">>,
          <<NewLine>>}

RECURSIVE Concat(_)
Concat(ws) == IF ws = <<>> THEN <<>> ELSE Head(ws) \o Concat(Tail(ws))

Messages == {Concat(ws) : ws \in SeqsUpTo(Words, MaxWords)}

InitClassify ==
    /\ NoPipeline
    /\ \E m \in Messages : arg = Input("_classify_commit", m)
    /\ ret = Nothing

Classify ==
    /\ arg.op = "_classify_commit"
    /\ ret = Nothing
    /\ ret' = [category |-> _classify_commit(arg.input)]
    /\ UNCHANGED <<pipeline_vars, arg>>

NextClassify == Classify

SpecClassify == InitClassify /\ [][NextClassify]_vars

(* CommitGrouper.group_commits on lists of commits *)

MaxGroupLen == 2    \* commits per list

GroupMessages == {<<"f", "e", "a", "t", ":", " ", "x">>, <<"f", "i", "x", ":", " ", "y">>, <<"a", "d", "d", " ", "t", "e", "s", "t">>, <<"w", "i", "p">>}

\* author and email of a commit; the third has no 'email' key
Identities ==
    {[author |-> Str(<<"A", "l">>), email |-> Str(<<"a", "l", "@", "x">>)],
     [author |-> Str(<<"A", "l", "i", "c", "e">>), email |-> Str(<<"a", "l", "@", "x">>)],
     [author |-> Str(<<"A", "l">>), email |-> Str(<<"b", "o", "@", "x">>)],
     [author |-> Str(<<"B", "o">>)]}

GroupCommits ==
    {SetKey(who, "message", Str(m)) :
        who \in Identities, m \in GroupMessages}

InitGroup ==
    /\ NoPipeline
    /\ \E commits \in SeqsUpTo(GroupCommits, MaxGroupLen) :
          arg = Input("group_commits", commits)
    /\ ret = Nothing

GroupCommitsCall ==
    /\ arg.op = "group_commits"
    /\ ret = Nothing
    /\ ret' = group_commits(arg.input)
    /\ UNCHANGED <<pipeline_vars, arg>>

NextGroup == GroupCommitsCall

SpecGroup == InitGroup /\ [][NextGroup]_vars

(* validate_commits on a newly created ValidationReport *)

MaxValidateLen == 2     \* commits per list

ValidCommit(hash) ==
    [hash |-> Str(hash), author |-> Str(<<"A", "l">>),
     message |-> Str(<<"w", "i", "p">>), timestamp |-> IsoTime(1, 10, 10)]

Without(d, k) == [f \in DOMAIN d \ {k} |-> d[f]]

ValidateCommits ==
    {ValidCommit(<<"a", "1">>),
     ValidCommit(<<"b", "2">>),
     \* a timestamp that is no text is not parsed at all
     SetKey(ValidCommit(<<"c", "3">>), "timestamp", Num(1736503200)),
     Without(ValidCommit(<<"d", "4">>), "author"),
     Without(ValidCommit(<<"e", "5">>), "hash"),
     SetKey(ValidCommit(<<"f", "6">>), "hash", None),
     SetKey(ValidCommit(<<"a", "7">>), "timestamp", Str([form |-> "text"])),
     SetKey(ValidCommit(<<"b", "8">>), "timestamp", IsoTime(13, 1, 10)),
     SetKey(ValidCommit(<<"c", "9">>), "message", None),
     \* counts of lines as git never reports them
     SetKey(SetKey(ValidCommit(<<"d", "0">>), "insertions", Num(-5)),
            "deletions", Str(<<"-", "2">>)),
     SetKey(ValidCommit(<<"e", "1">>), "insertions", Str(<<"n", "o">>))}

InitValidate ==
    /\ NoPipeline
    /\ \E commits \in SeqsUpTo(ValidateCommits, MaxValidateLen) :
          arg = Input("validate_commits", commits)
    /\ ret = Nothing

ValidateCommitsCall ==
    /\ arg.op = "validate_commits"
    /\ ret = Nothing
    /\ ret' = validate_commits(arg.input, NewReport)
    /\ UNCHANGED <<pipeline_vars, arg>>

NextValidate == ValidateCommitsCall

SpecValidate == InitValidate /\ [][NextValidate]_vars

(* validate_commit, and validate_commits on one commit, for every shape of
   the four required fields *)

\* what a required text field can hold: nothing (the key is absent), None,
\* the empty text, a text
Absent == [t |-> "absent"]

TextFieldValues == {Absent, None, Str(<<>>), Str(<<"a", "1">>)}

TimestampValues ==
    {Absent, None, IsoTime(1, 10, 10), IsoTime(2, 30, 10), Str([form |-> "text"])}

CommitOf(h, a, m, ts) ==
    LET all == [hash |-> h, author |-> a, message |-> m, timestamp |-> ts]
    IN  [f \in {g \in DOMAIN all : all[g] # Absent} |-> all[f]]

ValidateCommitInputs ==
    {CommitOf(h, a, m, ts) : h \in TextFieldValues, a \in TextFieldValues,
                             m \in TextFieldValues, ts \in TimestampValues}

InitValidateCommit ==
    /\ NoPipeline
    /\ \E commit \in ValidateCommitInputs :
          \/ arg = Input("validate_commit", commit)
          \/ arg = Input("validate_commits", <<commit>>)
    /\ ret = Nothing

ValidateCommitCall ==
    /\ arg.op = "validate_commit"
    /\ ret = Nothing
    /\ ret' = [is_valid |-> validate_commit(arg.input)[1],
               error_msg |-> validate_commit(arg.input)[2]]
    /\ UNCHANGED <<pipeline_vars, arg>>

NextValidateCommit == ValidateCommitCall \/ ValidateCommitsCall

SpecValidateCommit == InitValidateCommit /\ [][NextValidateCommit]_vars

(* validate_grouped_data on classifier outputs that nest every shape of
   commit, and on outputs that lack a part *)

\* a classifier output with one bucket that holds a valid commit and commit
GroupedAround(commit) ==
    [grouped_commits |->
         Dict(<<<<"feature", List(<<ValidCommit(<<"a", "1">>), commit>>)>>>>),
     stats |-> Dict([total_commits |-> Num(2)])]

GroupedInputs ==
    {GroupedAround(commit) : commit \in ValidateCommitInputs}
        \cup {Without(GroupedAround(ValidCommit(<<"b", "2">>)), key) :
                  key \in {"grouped_commits", "stats"}}
        \cup {SetKey(GroupedAround(ValidCommit(<<"b", "2">>)), key, List(<<>>)) :
                  key \in {"grouped_commits", "stats"}}
        \cup {SetKey(GroupedAround(ValidCommit(<<"b", "2">>)), "grouped_commits",
                     Dict(<<<<"feature", None>>>>))}

InitValidateGrouped ==
    /\ NoPipeline
    /\ \E grouped_data \in GroupedInputs :
          arg = Input("validate_grouped_data", grouped_data)
    /\ ret = Nothing

ValidateGroupedCall ==
    /\ arg.op = "validate_grouped_data"
    /\ ret = Nothing
    /\ ret' = [is_valid |-> validate_grouped_data(arg.input)[1],
               error_msg |-> validate_grouped_data(arg.input)[2]]
    /\ UNCHANGED <<pipeline_vars, arg>>

NextValidateGrouped == ValidateGroupedCall

SpecValidateGrouped == InitValidateGrouped /\ [][NextValidateGrouped]_vars

(* DataCleaner._clean_commit on messages of every length around the limit *)

MaxMessageLen == 204    \* characters per message

DigitChars == <<"0", "1", "2", "3", "4", "5", "6", "7", "8", "9">>

\* a text of n characters: each character tells its position, or all are dots
TextOf(n, kind) ==
    [i \in 1..n |-> IF kind = "dots" THEN "." ELSE DigitChars[(i % 10) + 1]]

\* a sanitized commit, as validate_commits hands it on
SanitizedCommit(hash, message) ==
    [hash |-> Str(hash), author |-> Str(<<"A", "l">>), message |-> Str(message),
     timestamp |-> IsoTime(1, 10, 10), files_changed |-> List(<<>>),
     insertions |-> Num(0), deletions |-> Num(0), diff |-> Str(<<>>)]

InitCleanCommit ==
    /\ NoPipeline
    /\ \E n \in 0..MaxMessageLen, kind \in {"digits", "dots"},
          commit_type \in {"feature", "other"} :
          arg = [op |-> "_clean_commit",
                 input |-> SanitizedCommit(<<"a", "1">>, TextOf(n, kind)),
                 commit_type |-> commit_type]
    /\ ret = Nothing

CleanCommitCall ==
    /\ arg.op = "_clean_commit"
    /\ ret = Nothing
    /\ ret' = [cleaned |-> _clean_commit(arg.input, arg.commit_type),
               again |-> Nothing]
    /\ UNCHANGED <<pipeline_vars, arg>>

\* the reduced message is reduced once more
CleanCommitAgain ==
    /\ arg.op = "_clean_commit"
    /\ ret # Nothing
    /\ ret.again = Nothing
    /\ ret' = [ret EXCEPT !.again =
                  _clean_commit(SetKey(arg.input, "message", ret.cleaned.message),
                                arg.commit_type)]
    /\ UNCHANGED <<pipeline_vars, arg>>

NextCleanCommit == CleanCommitCall \/ CleanCommitAgain

SpecCleanCommit == InitCleanCommit /\ [][NextCleanCommit]_vars

(* DataCleaner._chunk_diff on diff texts of every length up to two chunks
   and one character *)

MaxDiffLen == 4001      \* characters per diff text

InitChunkDiff ==
    /\ NoPipeline
    /\ \E n \in 0..MaxDiffLen :
          arg = Input("_chunk_diff", Str(TextOf(n, "digits")))
    /\ ret = Nothing

ChunkDiffCall ==
    /\ arg.op = "_chunk_diff"
    /\ ret = Nothing
    /\ ret' = [chunks |-> _chunk_diff(arg.input)]
    /\ UNCHANGED <<pipeline_vars, arg>>

NextChunkDiff == ChunkDiffCall

SpecChunkDiff == InitChunkDiff /\ [][NextChunkDiff]_vars

(* DataCleaner.clean_data on a grouping with two filled buckets *)

MaxBucketLen == 52      \* commits per bucket

\* the j-th commit of a bucket: its hash holds the bucket's letter and j
BucketCommit(letter, j) ==
    SanitizedCommit(<<letter, DigitChars[(j \div 10) + 1], DigitChars[(j % 10) + 1]>>,
                    <<"w", "i", "p">>)

\* the grouper's output with n1 commits under 'feature', n2 under 'bugfix'
GroupedOf(n1, n2) ==
    LET filled ==
          [i \in 1..Len(EmptyGroups) |->
              <<EmptyGroups[i][1],
                IF EmptyGroups[i][1] = "feature"
                THEN [j \in 1..n1 |-> BucketCommit("f", j)]
                ELSE IF EmptyGroups[i][1] = "bugfix"
                THEN [j \in 1..n2 |-> BucketCommit("b", j)]
                ELSE <<>> >>]
    IN  [grouped_commits |->
             Dict([i \in 1..Len(filled) |-> <<filled[i][1], List(filled[i][2])>>]),
         stats |-> Dict([total_commits |-> n1 + n2,
                         by_type |-> ByType(filled, 1, <<>>),
                         by_author |-> <<>>])]

InitCleanData ==
    /\ NoPipeline
    /\ \E n1 \in 0..MaxBucketLen, n2 \in 0..MaxBucketLen :
          arg = Input("clean_data", GroupedOf(n1, n2))
    /\ ret = Nothing

CleanDataCall ==
    /\ arg.op = "clean_data"
    /\ ret = Nothing
    /\ ret' = clean_data(arg.input)
    /\ UNCHANGED <<pipeline_vars, arg>>

NextCleanData == CleanDataCall

SpecCleanData == InitCleanData /\ [][NextCleanData]_vars

(* GitExtractor._parse_time on ISO timestamps and on short tokens *)

MaxTokenLen == 3        \* characters per token

TokenChars == {"0", "1", "2", "d", "w", "m", "y", "x"}

TimeStrings ==
    {Token(chars) : chars \in SeqsUpTo(TokenChars, MaxTokenLen)}
    \cup {IsoTime(1, 10, 10), IsoTime(2, 20, 0), IsoTime(2, 30, 10), IsoTime(13, 1, 10)}

InitParseTime ==
    /\ NoPipeline
    /\ \E time_str \in TimeStrings : arg = Input("_parse_time", time_str)
    /\ ret = Nothing

ParseTimeCall ==
    /\ arg.op = "_parse_time"
    /\ ret = Nothing
    /\ ret' = _parse_time(arg.input)
    /\ UNCHANGED <<pipeline_vars, arg>>

NextParseTime == ParseTimeCall

SpecParseTime == InitParseTime /\ [][NextParseTime]_vars

(* GitExtractor.get_commits on repositories with one line of history *)

MaxHistory == 3         \* commits in the history

\* committed dates: day 10, day 20 and, later than now, day 50 of the year
CommitDates == {9 * 24 + 10, 19 * 24 + 10, 49 * 24 + 10}

Faults == {"patch", "tree"}

\* the id-th commit of the line; its parent is the commit before it
LineCommit(id, committed_date, fault) ==
    [hexsha |-> <<DigitChars[id + 1], "b", "c", "d", "e", "f", "0", "1", "2", "3">>,
     author |-> [name |-> <<"A", "l">>, email |-> <<"a", "l", "@", "x">>],
     committed_date |-> committed_date,
     message |-> <<"w", "i", "p", NewLine>>,
     parents |-> IF id = 1 THEN <<>> ELSE <<id - 1>>,
     changes |-> <<[a_path |-> <<"f">>, diff |-> <<"+", "x">>]>>,
     insertions |-> 1,
     deletions |-> 0,
     fault |-> fault]

MAIN == <<"m", "a", "i", "n">>
V1 == <<"v", "1">>
NOPE == <<"n", "o", "p", "e">>

\* a line of k commits with the given dates, of which commit `faulty` (if
\* any) has the fault; branch main is at its end, tag v1 at its start
LineRepo(dates, faulty, fault) ==
    [objects |-> [id \in 1..Len(dates) |->
                     LineCommit(id, dates[id], IF id = faulty THEN fault ELSE "none")],
     branches |-> << <<MAIN, Len(dates)>> >>,
     tags |-> << <<V1, 1>> >>,
     active_branch |-> MAIN]

LineRepos ==
    {LineRepo(dates, faulty, fault) :
        dates \in SeqsUpTo(CommitDates, MaxHistory) \ {<<>>},
        faulty \in 0..MaxHistory, fault \in Faults}

SinceArgs == {None, Token(<<>>), IsoTime(1, 15, 0), Token(<<"3", "w">>), Token(<<"1", "y">>)}
UntilArgs == {None, IsoTime(1, 26, 0), Token(<<"2", "w">>)}
BranchArgs == {None, Str(MAIN), Str(V1), Str(NOPE)}

InitGetCommits ==
    /\ NoPipeline
    /\ \E repo \in LineRepos, since \in SinceArgs, until \in UntilArgs,
          branch \in BranchArgs :
          arg = [op |-> "get_commits", repo |-> repo, since |-> since,
                 until |-> until, branch |-> branch]
    /\ ret = Nothing

GetCommitsCall ==
    /\ arg.op = "get_commits"
    /\ ret = Nothing
    /\ ret' = get_commits(arg.repo, arg.since, arg.until, arg.branch)
    /\ UNCHANGED <<pipeline_vars, arg>>

NextGetCommits == GetCommitsCall

SpecGetCommits == InitGetCommits /\ [][NextGetCommits]_vars

-----------------------------------------------------------------------------
(* get_commits on histories given by the age of their commits *)

\* how many days before now a commit was made
AgesInDays == {1, 10, 40}

\* the line of commits of these ages, the first being the root
AgedRepo(ages) ==
    LineRepo([id \in 1..Len(ages) |-> Now.hours - timedelta(ages[id])], 0, "none")

WindowTokens ==
    {Token(<<"2", "w">>), Token(<<"1", "4", "d">>), Token(<<"1", "w">>),
     Token(<<"5", "d">>), Token(<<"2", "m">>)}

InitTimeWindow ==
    /\ NoPipeline
    /\ \E ages \in SeqsUpTo(AgesInDays, MaxHistory) \ {<<>>}, since \in WindowTokens :
          arg = [op |-> "get_commits", repo |-> AgedRepo(ages), ages |-> ages,
                 since |-> since, until |-> None, branch |-> None]
    /\ ret = Nothing

SpecTimeWindow == InitTimeWindow /\ [][NextGetCommits]_vars

(* GitExtractor.compare_branches on repositories with two branches *)

MaxShared == 2          \* commits the two branches share
MaxSide == 2            \* commits a branch has of its own

FEATURE == <<"f", "e", "a", "t", "u", "r", "e">>

\* `shared` commits in a line, then `base` commits of main and `compare`
\* commits of feature, each side a line that starts at the last shared commit
\* (or at a root of its own when nothing is shared)
ForkParents(id, shared, base) ==
    IF id = 1 THEN <<>>
    ELSE IF id = shared + base + 1
    THEN (IF shared = 0 THEN <<>> ELSE <<shared>>)
    ELSE <<id - 1>>

ForkRepo(shared, base, compare, compare_day, faulty, fault) ==
    [objects |->
        [id \in 1..(shared + base + compare) |->
            [LineCommit(id,
                        (IF id <= shared THEN 9 * 24
                         ELSE IF id <= shared + base THEN 19 * 24
                         ELSE compare_day * 24) + id,
                        IF id = faulty THEN fault ELSE "none")
             EXCEPT !.parents = ForkParents(id, shared, base)]],
     branches |-> << <<MAIN, shared + base>>,
                     <<FEATURE, IF compare = 0 THEN shared ELSE shared + base + compare>> >>,
     tags |-> << <<V1, 1>> >>,
     active_branch |-> MAIN]

ForkRepos ==
    {ForkRepo(shared, base, compare, compare_day, faulty, fault) :
        shared \in 0..MaxShared, base \in 0..MaxSide, compare \in 0..MaxSide,
        compare_day \in {19, 49}, faulty \in {0, 1, 2}, fault \in Faults}

\* a branch points to a commit: with nothing shared each side has a commit
WellFormedRepo(repo) ==
    \A i \in 1..Len(repo.branches) : repo.branches[i][2] \in 1..Len(repo.objects)

BranchPairs ==
    {<<MAIN, FEATURE>>, <<FEATURE, MAIN>>, <<MAIN, MAIN>>, <<NOPE, FEATURE>>,
     <<MAIN, NOPE>>, <<V1, MAIN>>, <<NOPE, NOPE>>}

InitCompareBranches ==
    /\ NoPipeline
    /\ \E repo \in ForkRepos, pair \in BranchPairs,
          since \in {None, IsoTime(1, 15, 0), Token(<<"1", "y">>)},
          until \in {None, IsoTime(1, 26, 0)}, context_commits \in {1, 5} :
          /\ WellFormedRepo(repo)
          /\ arg = [op |-> "compare_branches", repo |-> repo,
                    base_branch |-> pair[1], compare_branch |-> pair[2],
                    since |-> since, until |-> until,
                    context_commits |-> context_commits]
    /\ ret = Nothing

CompareBranchesCall ==
    /\ arg.op = "compare_branches"
    /\ ret = Nothing
    /\ ret' = compare_branches(arg.repo, arg.base_branch, arg.compare_branch,
                               arg.since, arg.until, arg.context_commits)
    /\ UNCHANGED <<pipeline_vars, arg>>

NextCompareBranches == CompareBranchesCall

SpecCompareBranches == InitCompareBranches /\ [][NextCompareBranches]_vars

-----------------------------------------------------------------------------
(* RepoParser.compare, one action per step: arg holds raw_comparison,      *)
(* ret holds processed                                                     *)

required_comp_keys ==
    <<"base_only_commits", "compare_only_commits", "context_commits",
      "merge_base", "base_branch", "compare_branch">>

\* [k for k in required_comp_keys if k not in raw_comparison]
MissingKeys(raw_comparison) ==
    SelectSeq(required_comp_keys, LAMBDA k : k \notin DOMAIN raw_comparison)

\* what the extraction of two diverged branches returns
ExtractedComparisons ==
    {compare_branches(ForkRepo(1, 1, 1, 19, 0, "none"),
                      MAIN, FEATURE, None, None, 5).value}

\* a dict of the fields that are there
Present(d) == [f \in {g \in DOMAIN d : d[g] # Nothing} |-> d[f]]

\* what a stand-in for the extractor may return in place of an extracted
\* comparison: fields left out or holding a value of another type
Variants(good) ==
    {Present([base_only_commits |-> b, compare_only_commits |-> c,
              context_commits |-> x, merge_base |-> m,
              base_branch |-> bb, compare_branch |-> cb]) :
        b \in {Nothing, Dict(<<>>), good.base_only_commits},
        c \in {Nothing, None, good.compare_only_commits},
        x \in {Nothing, Str(<<"n", "o">>), good.context_commits},
        m \in {Nothing, None, Str(<<"a", "b", "c", "1", "2", "3">>), good.merge_base},
        bb \in {Nothing, good.base_branch},
        cb \in {good.compare_branch}}

\* the numbers of commits on a side: few, and more than the digest keeps
SideSizes == {0, 1, 3, 5, MaxBucketLen - 2, MaxBucketLen - 1, MaxBucketLen}

\* an extracted comparison with n1 commits only on main and n2 only on feature
SidedComparison(n1, n2) ==
    [base_only_commits |-> List([j \in 1..n1 |-> BucketCommit("b", j)]),
     compare_only_commits |-> List([j \in 1..n2 |-> BucketCommit("c", j)]),
     context_commits |-> List(<<BucketCommit("m", 0)>>),
     merge_base |-> Dict(BucketCommit("m", 0)),
     base_branch |-> Str(MAIN),
     compare_branch |-> Str(FEATURE)]

\* an extracted comparison whose commits have messages of n characters
WordyComparison(n) ==
    LET wordy(commit) == SetKey(commit, "message", Str(TextOf(n, "digits")))
    IN  [base_only_commits |-> List(<<wordy(BucketCommit("b", 1))>>),
         compare_only_commits |-> List(<<wordy(BucketCommit("c", 1))>>),
         context_commits |-> List(<<wordy(BucketCommit("m", 0))>>),
         merge_base |-> Dict(BucketCommit("m", 0)),
         base_branch |-> Str(MAIN),
         compare_branch |-> Str(FEATURE)]

RawComparisons ==
    UNION {Variants(good) : good \in ExtractedComparisons}
        \cup {SidedComparison(n1, n2) : n1 \in SideSizes, n2 \in SideSizes}
        \cup {WordyComparison(n) : n \in MAX_MESSAGE_LENGTH..MaxMessageLen}

InitCompare ==
    /\ Init
    /\ grouper = "CommitGrouper"
    /\ cleaner = "DataCleaner"

\* compare() is called and self.extractor.compare_branches returns
CompareExtract ==
    /\ Idle
    /\ runs < MaxRuns
    /\ \E raw_comparison \in RawComparisons :
          arg' = [op |-> "compare", raw_comparison |-> raw_comparison]
    /\ ret' = Nothing
    /\ pc' = "compare_extracted"
    /\ runs' = runs + 1
    /\ calls' = <<"compare_branches">>
    /\ outcome' = Nothing
    /\ UNCHANGED <<policy_arg, on_validation_error, grouper, cleaner,
                   validation_report, raw_commits, validated_commits, grouped,
                   cleaned, run_log>>

\* compare() is called and self.extractor.compare_branches raises: compare
\* has no except clause
CompareExtractRaises ==
    /\ Idle
    /\ runs < MaxRuns
    /\ \E pair \in {<<NOPE, FEATURE>>, <<MAIN, NOPE>>} :
          /\ arg' = [op |-> "compare", base_branch |-> pair[1],
                     compare_branch |-> pair[2]]
          /\ outcome' = Raised(IF pair[1] = NOPE
                               THEN BranchNotFound("Base branch not found", pair[1])
                               ELSE BranchNotFound("Compare branch not found", pair[2]))
    /\ ret' = Nothing
    /\ pc' = "raised"
    /\ runs' = runs + 1
    /\ calls' = <<"compare_branches">>
    /\ UNCHANGED <<policy_arg, on_validation_error, grouper, cleaner,
                   validation_report, raw_commits, validated_commits, grouped,
                   cleaned, run_log>>

\* if missing: raise ValidationError, stage "compare"
CompareMissingKeys ==
    /\ pc = "compare_extracted"
    /\ MissingKeys(arg.raw_comparison) # <<>>
    /\ outcome' = Raised(ValidationError(
                      [text |-> "compare_branches output missing keys",
                       missing |-> MissingKeys(arg.raw_comparison)],
                      validation_report, "compare"))
    /\ pc' = "raised"
    /\ UNCHANGED <<policy_arg, on_validation_error, grouper, cleaner,
                   validation_report, raw_commits, validated_commits, grouped,
                   cleaned, calls, runs, run_log, arg, ret>>

\* if base_only_commits or compare_only_commits is no list: raise
\* ValidationError, stage "compare"
CompareNotLists ==
    /\ pc = "compare_extracted"
    /\ MissingKeys(arg.raw_comparison) = <<>>
    /\ \/ arg.raw_comparison.base_only_commits.t # "list"
       \/ arg.raw_comparison.compare_only_commits.t # "list"
    /\ outcome' = Raised(ValidationError(
                      [text |-> "compare_branches expected lists for base/compare commits"],
                      validation_report, "compare"))
    /\ pc' = "raised"
    /\ UNCHANGED <<policy_arg, on_validation_error, grouper, cleaner,
                   validation_report, raw_commits, validated_commits, grouped,
                   cleaned, calls, runs, run_log, arg, ret>>

\* processed = self.comparator.process_comparison(...); what it raises
\* leaves compare as it is
CompareProcess ==
    /\ pc = "compare_extracted"
    /\ MissingKeys(arg.raw_comparison) = <<>>
    /\ arg.raw_comparison.base_only_commits.t = "list"
    /\ arg.raw_comparison.compare_only_commits.t = "list"
    /\ calls' = Append(calls, "process_comparison")
    /\ LET processed == process_comparison(arg.raw_comparison.base_only_commits,
                                           arg.raw_comparison.compare_only_commits,
                                           arg.raw_comparison.context_commits,
                                           arg.raw_comparison.merge_base,
                                           arg.raw_comparison.base_branch,
                                           arg.raw_comparison.compare_branch)
       IN  IF processed.raised
           THEN /\ outcome' = Raised(processed)
                /\ pc' = "raised"
                /\ ret' = ret
           ELSE /\ ret' = processed.value
                /\ pc' = "compare_processed"
                /\ outcome' = outcome
    /\ UNCHANGED <<policy_arg, on_validation_error, grouper, cleaner,
                   validation_report, raw_commits, validated_commits, grouped,
                   cleaned, runs, run_log, arg>>

\* cleaned = self.cleaner.clean_comparison_data(processed); return cleaned.
\* ret is the dict processed as it stands, arg the comparison as the
\* extractor returned it.
CompareClean ==
    /\ pc = "compare_processed"
    /\ calls' = Append(calls, "clean_comparison_data")
    /\ LET result == clean_comparison_data(ret)
       IN  IF result.raised
           THEN /\ outcome' = Raised(result)
                /\ pc' = "raised"
                /\ ret' = ret
           ELSE /\ outcome' = Returned(result.value)
                /\ pc' = "returned"
                /\ ret' = result.comparison_data
    /\ UNCHANGED <<policy_arg, on_validation_error, grouper, cleaner,
                   validation_report, raw_commits, validated_commits, grouped,
                   cleaned, runs, run_log, arg>>

NextCompare ==
    \/ CompareExtract
    \/ CompareExtractRaises
    \/ CompareMissingKeys
    \/ CompareNotLists
    \/ CompareProcess
    \/ CompareClean

SpecCompare == InitCompare /\ [][NextCompare]_vars

-----------------------------------------------------------------------------
(* Properties of CommitGrouper *)

CategoryNames ==
    {"feature", "bugfix", "refactor", "docs", "style", "test", "chore", "other"}

\* the number of buckets that hold the commit
BucketsHolding(groups, commit) ==
    Cardinality({i \in 1..Len(groups) :
                    \E j \in 1..Len(groups[i][2].v) : groups[i][2].v[j] = commit})

\* C1: group_commits places every commit of its input in exactly one of the
\* eight category buckets, and its stats satisfy
\* sum(by_type.values()) == total_commits == len(input).
C1_OneBucketPerCommit ==
    (arg.op = "group_commits" /\ ret # Nothing) =>
        LET groups == ret.grouped_commits.v
            stats == ret.stats.v
        IN  /\ Len(groups) = 8
            /\ {groups[i][1] : i \in 1..Len(groups)} = CategoryNames
            /\ \A k \in 1..Len(arg.input) : BucketsHolding(groups, arg.input[k]) = 1
            /\ SumSeq([i \in 1..Len(groups) |-> Len(groups[i][2].v)]) = Len(arg.input)
            /\ SumSeq([i \in 1..Len(stats.by_type) |-> stats.by_type[i][2]])
                 = stats.total_commits
            /\ stats.total_commits = Len(arg.input)

\* two different commits that both land in the feature bucket
C1_Witness ==
    /\ arg.op = "group_commits"
    /\ ret # Nothing
    /\ Len(arg.input) = 2
    /\ arg.input[1] # arg.input[2]
    /\ Len(Get(ret.grouped_commits.v, "feature").v) = 2

\* the priority order the claim names
CategoryOrder == <<"feature", "bugfix", "refactor", "docs", "style", "test", "chore">>

PatternsOf(category) ==
    PATTERNS[CHOOSE i \in 1..Len(PATTERNS) : PATTERNS[i][1] = category][2]

\* some pattern of the category matches the lower-cased message
CategoryMatches(category, message) ==
    \E i \in 1..Len(PatternsOf(category)) :
        re_search(PatternsOf(category)[i], lower(message))

\* C2: _classify_commit returns the earliest category, in the order feature,
\* bugfix, refactor, docs, style, test, chore, one of whose patterns matches
\* the lower-cased message, and 'other' exactly when no pattern matches.
C2_FirstMatchWins ==
    (arg.op = "_classify_commit" /\ ret # Nothing) =>
        LET hit == {i \in 1..Len(CategoryOrder) :
                       CategoryMatches(CategoryOrder[i], arg.input)}
        IN  /\ hit # {} =>
                 ret.category = CategoryOrder[CHOOSE i \in hit : \A j \in hit : i <= j]
            /\ (ret.category = "other") <=> (hit = {})

\* an upper-case message that two categories match: the earlier one wins
C2_Witness ==
    /\ arg.op = "_classify_commit"
    /\ ret # Nothing
    /\ ret.category = "bugfix"
    /\ CategoryMatches("test", arg.input)
    /\ lower(arg.input) # arg.input

-----------------------------------------------------------------------------
(* Properties of RepoParser.parse *)

IsSuffix(s, t) ==
    /\ Len(s) <= Len(t)
    /\ SubSeq(t, Len(t) - Len(s) + 1, Len(t)) = s

RaisedValidationError ==
    /\ pc = "raised"
    /\ outcome.kind = "raised"
    /\ outcome.error.exc = "ValidationError"

\* the error parse raised names the stage and carries the report as it stands
RaisedAtStage(stage) ==
    /\ RaisedValidationError
    /\ "stage" \in DOMAIN outcome.error
    /\ outcome.error.stage = stage
    /\ "report" \in DOMAIN outcome.error
    /\ outcome.error.report = to_dict(validation_report)

\* the classifier's output of this run has been checked and has failed
GroupedRejected ==
    /\ pc # "grouped"
    /\ grouped # Nothing
    /\ ~validate_grouped_data(grouped)[1]

\* the reducer's output of this run has been checked and has failed
CleanedRejected ==
    /\ pc # "cleaned"
    /\ cleaned # Nothing
    /\ ~validate_cleaned_data(cleaned)[1]

\* C3: under policy 'raise', which is also the policy of a parser built
\* without one, a classifier output that fails validate_grouped_data makes
\* parse raise a ValidationError of stage 'grouper', a reducer output that
\* fails validate_cleaned_data one of stage 'cleaner'; the error carries the
\* validation report and no later stage is invoked.
C3_RaisePolicy ==
    /\ policy_arg = "omitted" => on_validation_error = "raise"
    /\ on_validation_error = "raise" =>
        /\ GroupedRejected => (RaisedAtStage("grouper") /\ ~Called("clean_data"))
        /\ CleanedRejected =>
              (RaisedAtStage("cleaner") /\ calls[Len(calls)] = "clean_data")

\* a parser built without a policy has rejected its grouper's output, after
\* dropping a commit
C3_Witness ==
    /\ policy_arg = "omitted"
    /\ GroupedRejected
    /\ pc = "raised"
    /\ run_log.skipped > 0

\* C4: under policy 'fallback', when the classifier output fails validation,
\* the grouping handed to clean_data has exactly one bucket per validated
\* commit, keyed by that commit's hash and holding only that commit.
C4_OneBucketPerValidatedCommit ==
    (on_validation_error = "fallback" /\ run_log.grouper_error # Nothing
        /\ Called("clean_data")) =>
        LET buckets == grouped.grouped_commits.v IN
        /\ Len(buckets) = Len(validated_commits)
        /\ \A i \in 1..Len(validated_commits) :
              \E j \in 1..Len(buckets) :
                  /\ buckets[j][1] = validated_commits[i]["hash"]
                  /\ buckets[j][2] = List(<<validated_commits[i]>>)

\* C5: under policy 'fallback', a classifier output that fails validation
\* never makes parse raise: the warning is recorded, clean_data runs on the
\* per-commit grouping and completes, and parse returns.
C5_FallbackNeverRaises ==
    (on_validation_error = "fallback" /\ run_log.grouper_error # Nothing) =>
        /\ Len(run_log.warnings) > 0
        /\ IsSuffix(run_log.warnings, validation_report.warnings)
        /\ pc # "raised"
        /\ pc = "returned" =>
              (Called("clean_data") /\ outcome.kind = "returned")

\* C6: under policy 'fallback', when the reducer output fails
\* validate_cleaned_data, parse returns a result whose commits are the
\* validated commits, whose summary_text is the placeholder, whose stats is
\* empty and whose metadata.validation_report includes the warning recorded
\* for the failure.
C6_PartialResult ==
    (on_validation_error = "fallback" /\ CleanedRejected) =>
        /\ pc = "returned"
        /\ outcome.kind = "returned"
        /\ DOMAIN outcome.value = {"commits", "summary_text", "stats", "metadata"}
        /\ outcome.value["commits"] = List(validated_commits)
        /\ outcome.value["summary_text"] = Str([lit |-> PartialSummary])
        /\ outcome.value["stats"] = Dict(<<>>)
        /\ "validation_report" \in DOMAIN outcome.value["metadata"].v
        /\ LET warnings == Deref(outcome.value["metadata"].v["validation_report"].warnings)
           IN  /\ warnings # <<>>
               /\ warnings[Len(warnings)] =
                     [text |-> "Cleaner output validation failed (returning partial cleaned data)",
                      inner |-> validate_cleaned_data(cleaned)[2]]

\* the fallback parser has returned a partial result for two validated commits
C6_Witness ==
    /\ on_validation_error = "fallback"
    /\ CleanedRejected
    /\ pc = "returned"
    /\ Len(validated_commits) = 2

\* C7: under both policies, when no commit survives validate_commits, parse
\* raises a ValidationError of stage 'commits' that carries the validation
\* report, and neither the classifier nor the reducer is invoked.
C7_NoValidCommits ==
    (Called("validate_commits") /\ validated_commits = <<>>) =>
        /\ ~Called("group_commits")
        /\ ~Called("clean_data")
        /\ pc # "validated" => RaisedAtStage("commits")

\* the fallback parser has dropped every commit it was given and has raised
C7_Witness ==
    /\ on_validation_error = "fallback"
    /\ Called("validate_commits")
    /\ validated_commits = <<>>
    /\ Len(raw_commits) > 0
    /\ pc = "raised"

\* a report dict holds the report's skipped count and every warning this run
\* has recorded
ReportCovers(report) ==
    /\ report.skipped_commits = validation_report.skipped_commits
    /\ report.total_commits_processed = Len(raw_commits)
    /\ report.skipped_commits >= run_log.skipped
    /\ runs = 1 => report.skipped_commits = run_log.skipped
    /\ IsSuffix(run_log.warnings, Deref(report.warnings))

\* C8: every result parse returns carries metadata.validation_report and
\* every ValidationError it raises carries a report; each holds the skipped
\* count and all warnings recorded up to then, a fallback warning included.
C8_ReportAttached ==
    /\ pc = "returned" =>
          /\ "metadata" \in DOMAIN outcome.value
          /\ "validation_report" \in DOMAIN outcome.value["metadata"].v
          /\ ReportCovers(outcome.value["metadata"].v["validation_report"])
    /\ RaisedValidationError =>
          /\ "report" \in DOMAIN outcome.error
          /\ ReportCovers(outcome.error.report)

\* a result returned after a commit was dropped and the grouper's output
\* was replaced by the per-commit grouping
C8_Witness ==
    /\ pc = "returned"
    /\ run_log.skipped > 0
    /\ run_log.grouper_error # Nothing
    /\ Len(run_log.warnings) = 2

\* the report dict of the outcome of the last parse call, if it has one
HasReport ==
    \/ pc = "returned"
    \/ RaisedValidationError

OutcomeReport ==
    IF pc = "returned" THEN outcome.value["metadata"].v["validation_report"]
    ELSE outcome.error.report

\* C9: the validation report of each parse call on one RepoParser starts
\* empty: the skipped count and the warnings attached to a result or error
\* are those of that run alone, so skipped_commits never exceeds
\* total_commits_processed.
C9_ReportPerRun ==
    HasReport =>
        /\ OutcomeReport.skipped_commits = run_log.skipped
        /\ Deref(OutcomeReport.warnings) = run_log.warnings
        /\ OutcomeReport.skipped_commits <= OutcomeReport.total_commits_processed

\* the run's classifier output was rejected because it has no 'stats'
StatsKeyMissing ==
    run_log.grouper_error = [text |-> "Missing required key", key |-> "stats"]

\* a warning that mentions the missing key
MentionsStats(warning) ==
    /\ "inner" \in DOMAIN warning
    /\ "key" \in DOMAIN warning.inner
    /\ warning.inner.key = "stats"

\* C21: under policy 'fallback', when the classifier output is missing its
\* stats key, parse yields a reduced output whose summary_text equals the
\* literal fallback placeholder text and whose
\* metadata.validation_report.warnings contains at least one entry
\* mentioning the missing key.
C21_FallbackExample ==
    (on_validation_error = "fallback" /\ StatsKeyMissing
        /\ pc \in {"returned", "raised"}) =>
        /\ outcome.kind = "returned"
        /\ outcome.value["summary_text"] = Str([lit |-> PartialSummary])
        /\ "validation_report" \in DOMAIN outcome.value["metadata"].v
        /\ LET warnings == Deref(outcome.value["metadata"].v["validation_report"].warnings)
           IN  \E i \in 1..Len(warnings) : MentionsStats(warnings[i])

\* the stage operations of parse, in the order parse invokes them
StageOrder == <<"get_commits", "validate_commits", "group_commits", "clean_data">>

\* how far a run at this position has come in StageOrder
StagesDone ==
    CASE pc = "idle" -> {0}
      [] pc = "extracted" -> {1}
      [] pc = "validated" -> {2}
      [] pc \in {"grouped", "classified"} -> {3}
      [] pc = "cleaned" -> {4}
      [] pc = "returned" -> {4}
      [] pc = "raised" -> 1..4

\* the positions a run may come to next
NextPositions ==
    CASE pc \in {"idle", "returned", "raised"} -> {"extracted", "raised"}
      [] pc = "extracted" -> {"validated"}
      [] pc = "validated" -> {"grouped", "raised"}
      [] pc = "grouped" -> {"classified", "raised"}
      [] pc = "classified" -> {"cleaned", "raised"}
      [] pc = "cleaned" -> {"returned", "raised"}

StagesInOrder ==
    /\ calls = SubSeq(StageOrder, 1, Len(calls))
    /\ Len(calls) \in StagesDone
    /\ Called("group_commits") => validated_commits # <<>>
    /\ Called("clean_data") =>
          /\ validate_grouped_data(grouped)[1]
          /\ run_log.grouper_error # Nothing =>
                (on_validation_error = "fallback"
                    /\ grouped = FallbackGrouped(validated_commits))
    /\ pc \notin {"returned", "raised"} => outcome = Nothing
    /\ pc = "returned" =>
          /\ outcome.kind = "returned"
          /\ \/ validate_cleaned_data(cleaned)[1]
             \/ on_validation_error = "fallback" /\ run_log.cleaner_error # Nothing
    /\ pc = "raised" => outcome.kind = "raised"

\* C24: every run of parse passes its stages in the fixed order extraction,
\* per-commit validation, classification, CLASSIFIED check, reduction,
\* REDUCED check; a stage starts only after its predecessor's check has
\* passed or a fallback has replaced the predecessor's output, and the run
\* ends in exactly one terminal outcome, a returned result or a raised error.
C24_StageOrder ==
    /\ []StagesInOrder
    /\ [][pc' # pc => pc' \in NextPositions]_vars

\* a run has come to its end through all four stages after the classifier's
\* output was replaced by the fallback grouping
C24_Witness ==
    /\ pc = "returned"
    /\ calls = StageOrder
    /\ run_log.grouper_error # Nothing
    /\ outcome.kind = "returned"

\* C25: the validation report attached to a result or to an error of
\* parse is a read-only snapshot: what the caller reads in it, warnings and
\* counts, is what it read when it received it, whatever the same RepoParser
\* does afterwards.  (The counts are numbers copied into the dict; the
\* warnings are what the list the dict refers to holds.)
C25_ReportSnapshot ==
    ret # Nothing => Deref(ret.report.warnings) = ret.warnings_read

-----------------------------------------------------------------------------
(* Properties of validate_commits *)

Fails(commit) == ~validate_commit(commit)[1]

\* the positions of the input, in order, at which P holds
RECURSIVE Positions(_, _, _)
Positions(commits, i, keep) ==
    IF i > Len(commits) THEN <<>>
    ELSE (IF Fails(commits[i]) = keep THEN <<>> ELSE <<i>>)
         \o Positions(commits, i + 1, keep)

HashMissing(commit) == "hash" \notin DOMAIN commit \/ commit["hash"] = None

\* C10: after validate_commits on a new report, skipped_commits is the number
\* of input commits that fail the check, total_commits_processed is
\* len(commits), the returned list holds the other commits in input order,
\* and the report holds one warning per dropped commit, naming its hash, or
\* 'unknown' if the hash is missing.
C10_DropAccounting ==
    (arg.op = "validate_commits" /\ ret # Nothing) =>
        LET dropped == Positions(arg.input, 1, FALSE)
            kept == Positions(arg.input, 1, TRUE)
        IN  /\ ret.report.skipped_commits = Len(dropped)
            /\ ret.report.total_commits_processed = Len(arg.input)
            /\ Len(ret.valid) = Len(arg.input) - ret.report.skipped_commits
            /\ Len(ret.valid) = Len(kept)
            /\ \A j \in 1..Len(kept) :
                  \A f \in {"hash", "author", "message", "timestamp"} :
                      ret.valid[j][f] = arg.input[kept[j]][f]
            /\ Len(ret.report.warnings) = Len(dropped)
            /\ \A j \in 1..Len(dropped) :
                  ret.report.warnings[j].hash =
                      IF HashMissing(arg.input[dropped[j]])
                      THEN <<"u", "n", "k", "n", "o", "w", "n">>
                      ELSE arg.input[dropped[j]]["hash"].v


\* the check the claim states: hash, author and message are present and
\* non-empty texts, and timestamp is a text that parses
PresentNonEmpty(commit, field) ==
    /\ field \in DOMAIN commit
    /\ commit[field].t = "str"
    /\ commit[field].v # <<>>

PassesStatedCheck(commit) ==
    /\ \A f \in {"hash", "author", "message"} : PresentNonEmpty(commit, f)
    /\ "timestamp" \in DOMAIN commit
    /\ commit["timestamp"].t = "str"
    /\ fromisoformat_ok(commit["timestamp"].v)

\* C11: validate_commit accepts a commit if and only if hash, author and
\* message are present and non-empty and timestamp parses as a point in time;
\* validate_commits drops every commit failing this check and keeps every
\* commit passing it.
C11_AcceptsIffWellFormed ==
    /\ (arg.op = "validate_commit" /\ ret # Nothing) =>
          (ret.is_valid <=> PassesStatedCheck(arg.input))
    /\ (arg.op = "validate_commits" /\ ret # Nothing /\ Len(arg.input) = 1) =>
          (Len(ret.valid) = 1 <=> PassesStatedCheck(arg.input[1]))


-----------------------------------------------------------------------------
(* Properties of DataCleaner *)

\* C12: _clean_commit leaves a message of at most 200 characters unchanged
\* and replaces a longer one by its first 200 characters followed by '...':
\* the output never exceeds 203 characters, a 200-character message is not
\* truncated, a 201-character message becomes 203 characters ending in
\* '...', and reducing a reduced message changes nothing.
C12_Truncation ==
    (arg.op = "_clean_commit" /\ ret # Nothing) =>
        LET message == arg.input["message"].v
            out == ret.cleaned.message.v
        IN  /\ ret.cleaned.message.t = "str"
            /\ Len(message) <= 200 => out = message
            /\ Len(message) > 200 =>
                  /\ SubSeq(out, 1, 200) = SubSeq(message, 1, 200)
                  /\ SubSeq(out, 201, Len(out)) = <<".", ".", ".">>
            /\ Len(out) <= 203
            /\ Len(message) = 201 => Len(out) = 203
            /\ ret.again # Nothing => ret.again.message = ret.cleaned.message

\* a message of 201 characters has been reduced, and its reduction reduced
C12_Witness ==
    /\ arg.op = "_clean_commit"
    /\ ret # Nothing
    /\ Len(arg.input["message"].v) = 201
    /\ Len(ret.cleaned.message.v) = 203
    /\ ret.again # Nothing


\* ceil(n / 2000)
CeilDiv2000(n) == (n + 1999) \div 2000

\* C13: the chunks _chunk_diff returns, concatenated in order, are the diff
\* text; there are ceil(len(diff)/2000) of them (none for an empty diff),
\* every chunk but the last has 2000 characters, and the last has
\* len(diff) mod 2000 characters, or 2000 when the remainder is 0, so that no
\* chunk is empty.
C13_ChunkRoundTrip ==
    (arg.op = "_chunk_diff" /\ ret # Nothing) =>
        LET diff == arg.input.v
            chunks == ret.chunks
            n == Len(chunks)
        IN  /\ Concat(chunks) = diff
            /\ n = CeilDiv2000(Len(diff))
            /\ \A i \in 1..(n - 1) : Len(chunks[i]) = 2000
            /\ n > 0 => Len(chunks[n]) =
                  (IF Len(diff) % 2000 = 0 THEN 2000 ELSE Len(diff) % 2000)
            /\ \A i \in 1..n : chunks[i] # <<>>

\* a diff of two full chunks and one character more
C13_Witness ==
    /\ arg.op = "_chunk_diff"
    /\ ret # Nothing
    /\ Len(arg.input.v) = 4001
    /\ Len(ret.chunks) = 3
    /\ Len(ret.chunks[3]) = 1


Min(a, b) == IF a < b THEN a ELSE b

\* the records of the reduced list that carry the category
OfCategory(records, category) ==
    SelectSeq(records, LAMBDA c : c.type = category)

\* C14: for every category bucket with n commits passed to clean_data, the
\* reduced commits list holds exactly min(n, 50) records of that category,
\* and they are the first min(n, 50) commits of the bucket in arrival order.
C14_PerCategoryCap ==
    (arg.op = "clean_data" /\ ret # Nothing) =>
        /\ ~ret.raised
        /\ \A i \in 1..Len(arg.input.grouped_commits.v) :
              LET category == arg.input.grouped_commits.v[i][1]
                  bucket == arg.input.grouped_commits.v[i][2].v
                  kept == OfCategory(ret.value["commits"].v, category)
              IN  /\ Len(kept) = Min(Len(bucket), 50)
                  /\ \A j \in 1..Len(kept) : kept[j].hash = bucket[j]["hash"]

\* a bucket of 51 commits has been reduced to 50, next to a bucket below the cap
C14_Witness ==
    /\ arg.op = "clean_data"
    /\ ret # Nothing
    /\ Len(Get(arg.input.grouped_commits.v, "feature").v) = 51
    /\ Len(Get(arg.input.grouped_commits.v, "bugfix").v) = 3
    /\ Len(OfCategory(ret.value["commits"].v, "feature")) = 50
    /\ Len(ret.value["commits"].v) = 53


-----------------------------------------------------------------------------
(* Properties of GitExtractor *)

\* the token is <n><unit>: one or more digits, then one of the units, and
\* nothing more
IsRelativeToken(chars, units) ==
    /\ Len(chars) >= 2
    /\ DigitPrefix(chars) = Len(chars) - 1
    /\ chars[Len(chars)] \in units

DaysPerUnit(unit) ==
    CASE unit = "d" -> 1 [] unit = "w" -> 7 [] unit = "m" -> 30 [] unit = "y" -> 365

\* C16: _parse_time maps a relative token <n><unit> to now minus n days for
\* unit d, 7n days for w, 30n days for m and 365n days for y, and raises the
\* invalid-time-format error for every token that is neither an absolute ISO
\* timestamp nor of this form.
C16_RelativeTokens ==
    (arg.op = "_parse_time" /\ ret # Nothing /\ arg.input.v.form = "text") =>
        LET chars == arg.input.v.chars IN
        IF IsRelativeToken(chars, {"d", "w", "m", "y"})
        THEN /\ ~ret.raised
             /\ ret.value = Datetime(Now.hours
                   - 24 * DaysPerUnit(chars[Len(chars)])
                        * DigitsValue(SubSeq(chars, 1, Len(chars) - 1), 0))
        ELSE /\ ret.raised
             /\ ret.exc = "ValueError"
             /\ ret.text = "Invalid time format"


\* the walk the call makes, and the bounds it parsed
WalkOfCall ==
    iter_commits(arg.repo, IF arg.branch = None THEN arg.repo.active_branch
                           ELSE arg.branch.v).value

SinceOfCall == IF Truthy(arg.since) THEN _parse_time(arg.since).value ELSE None
UntilOfCall == IF Truthy(arg.until) THEN _parse_time(arg.until).value ELSE Now

DateAt(i) == arg.repo.objects[WalkOfCall[i]].committed_date

OlderThanSince(i) == SinceOfCall # None /\ DateAt(i) < SinceOfCall.hours
NewerThanUntil(i) == DateAt(i) > UntilOfCall.hours

\* the positions of the walk before the first commit older than since that
\* hold a commit not newer than until
WindowOfCall ==
    LET stops == {i \in 1..Len(WalkOfCall) : OlderThanSince(i)}
        stop == IF stops = {} THEN Len(WalkOfCall) + 1
                ELSE CHOOSE i \in stops : \A j \in stops : i <= j
    IN  SelectSeq([i \in 1..(stop - 1) |-> i], LAMBDA i : ~NewerThanUntil(i))

\* C15: get_commits returns, in walk order, exactly the commits that come
\* before the first commit older than since in the walk and are not newer
\* than until: a commit older than since ends the walk, a commit newer than
\* until is passed over and the walk goes on.
C15_SinceStopsUntilSkips ==
    (arg.op = "get_commits" /\ ret # Nothing /\ ~ret.raised) =>
        /\ Len(ret.value) = Len(WindowOfCall)
        /\ \A j \in 1..Len(WindowOfCall) :
              LET commit == arg.repo.objects[WalkOfCall[WindowOfCall[j]]] IN
              /\ ret.value[j].hash = Str(SubSeq(commit.hexsha, 1, 8))
              /\ ret.value[j].timestamp = isoformat(Datetime(commit.committed_date))

\* the walk met a commit newer than until, then one inside the window, then
\* one older than since: only the second was returned
C15_Witness ==
    /\ arg.op = "get_commits"
    /\ ret # Nothing
    /\ ~ret.raised
    /\ Len(WalkOfCall) = 3
    /\ NewerThanUntil(1)
    /\ ~OlderThanSince(2) /\ ~NewerThanUntil(2)
    /\ OlderThanSince(3)
    /\ Len(ret.value) = 1


\* the bounds of the call parse and its branch resolves
CallWalks ==
    /\ Truthy(arg.since) => ~_parse_time(arg.since).raised
    /\ Truthy(arg.until) => ~_parse_time(arg.until).raised
    /\ ~iter_commits(arg.repo, IF arg.branch = None THEN arg.repo.active_branch
                               ELSE arg.branch.v).raised

\* computing the commit's diff against its parent fails
DiffFails(commit) == commit.parents # <<>> /\ commit.fault # "none"

\* C19: in get_commits, a failure while extracting one commit's diff never
\* aborts the extraction and never drops the commit: the commit is returned
\* with an error placeholder in its diff field, and every other commit of
\* the window is returned as well.
C19_DiffFailureKeepsCommit ==
    (arg.op = "get_commits" /\ ret # Nothing /\ CallWalks) =>
        /\ ~ret.raised
        /\ Len(ret.value) = Len(WindowOfCall)
        /\ \A j \in 1..Len(WindowOfCall) :
              LET commit == arg.repo.objects[WalkOfCall[WindowOfCall[j]]] IN
              /\ ret.value[j].hash = Str(SubSeq(commit.hexsha, 1, 8))
              /\ DiffFails(commit) =>
                    ret.value[j].diff = Str(ErrorExtractingDiff(DiffError))

\* C20: get_commits called with a branch name that is not in the
\* repository's branch list fails with a 'Branch not found' error and
\* returns no commits.
C20_UnknownBranchRejected ==
    (arg.op = "get_commits" /\ ret # Nothing /\ arg.branch # None
        /\ ~InList(arg.branch.v, Names(arg.repo.branches))) =>
        /\ ret.raised
        /\ "text" \in DOMAIN ret
        /\ ret.text = "Branch not found"


BranchListed(name) == \E i \in 1..Len(arg.repo.branches) : arg.repo.branches[i][1] = name

ReachableFrom(name) == Ancestors(arg.repo.objects, Lookup(arg.repo.branches, name))

HashOf(id) == Str(SubSeq(arg.repo.objects[id].hexsha, 1, 8))

\* the commit lies inside the time bounds of the call
InsideBounds(id) ==
    LET date == arg.repo.objects[id].committed_date IN
    /\ SinceOfCall # None => date >= SinceOfCall.hours
    /\ date <= UntilOfCall.hours

\* the commits one branch has and the other has not, inside the time bounds
OnlyOn(name, other) ==
    {id \in ReachableFrom(name) \ ReachableFrom(other) : InsideBounds(id)}

Hashes(records) == {records[i].hash : i \in 1..Len(records)}

\* nothing keeps the call from reading what it extracts: the bounds parse and
\* no commit's diff against its parent fails for its changed files
ExtractionSound ==
    /\ Truthy(arg.since) => ~_parse_time(arg.since).raised
    /\ Truthy(arg.until) => ~_parse_time(arg.until).raised
    /\ \A id \in 1..Len(arg.repo.objects) :
          ~(arg.repo.objects[id].parents # <<>> /\ arg.repo.objects[id].fault = "tree")

BranchErrors ==
    {"Base branch not found", "Compare branch not found", "No common ancestor found"}

\* C17: compare_branches fails with a branch-not-found error if the base or
\* the compare name is absent from the repository's branch list, and with a
\* no-common-ancestor error if the two branches have no merge base, in both
\* cases before any commit is extracted; otherwise it raises neither error
\* and what it returns is the merge base, the commits only on base, the
\* commits only on compare, and the context commits from the merge base on.
C17_CompareBranches ==
    (arg.op = "compare_branches" /\ ret # Nothing) =>
        IF ~BranchListed(arg.base_branch) \/ ~BranchListed(arg.compare_branch)
        THEN /\ ret.raised
             /\ ret.exc = "ValueError"
             /\ ret.text = (IF ~BranchListed(arg.base_branch)
                            THEN "Base branch not found"
                            ELSE "Compare branch not found")
             /\ ~InList("iter_commits", ret.repo_calls)
        ELSE IF ReachableFrom(arg.base_branch) \cap ReachableFrom(arg.compare_branch) = {}
        THEN /\ ret.raised
             /\ ret.exc = "ValueError"
             /\ ret.text = "No common ancestor found"
             /\ ~InList("iter_commits", ret.repo_calls)
        ELSE /\ ret.raised => ("text" \in DOMAIN ret => ret.text \notin BranchErrors)
             /\ ExtractionSound => ~ret.raised
             /\ ~ret.raised =>
                  LET common == ReachableFrom(arg.base_branch)
                                   \cap ReachableFrom(arg.compare_branch)
                      base_only == ret.value.base_only_commits.v
                      compare_only == ret.value.compare_only_commits.v
                      context == ret.value.context_commits.v
                  IN  /\ \E id \in common :
                            /\ \A other \in common :
                                  other \in Ancestors(arg.repo.objects, id)
                            /\ ret.value.merge_base.v.hash = HashOf(id)
                            /\ context # <<>> /\ context[1].hash = HashOf(id)
                            /\ Len(context) =
                                  Min(arg.context_commits,
                                      Cardinality(Ancestors(arg.repo.objects, id)))
                      /\ Len(base_only) =
                            Cardinality(OnlyOn(arg.base_branch, arg.compare_branch))
                      /\ Hashes(base_only) =
                            {HashOf(id) : id \in OnlyOn(arg.base_branch, arg.compare_branch)}
                      /\ Len(compare_only) =
                            Cardinality(OnlyOn(arg.compare_branch, arg.base_branch))
                      /\ Hashes(compare_only) =
                            {HashOf(id) : id \in OnlyOn(arg.compare_branch, arg.base_branch)}

\* two listed branches whose histories do not meet have been compared: the
\* call raised after asking for the merge base, before walking any history
C17_Witness ==
    /\ arg.op = "compare_branches"
    /\ ret # Nothing
    /\ BranchListed(arg.base_branch)
    /\ BranchListed(arg.compare_branch)
    /\ ret.raised
    /\ ret.exc = "ValueError"
    /\ ret.text = "No common ancestor found"
    /\ ret.repo_calls = <<"branches", "branches", "merge_base">>

-----------------------------------------------------------------------------
(* Properties of RepoParser.compare *)

\* the extracted comparison lacks a required field, or a commit collection
\* of it is no list, or its merge base is no commit record
Malformed(raw_comparison) ==
    \/ MissingKeys(raw_comparison) # <<>>
    \/ raw_comparison.base_only_commits.t # "list"
    \/ raw_comparison.compare_only_commits.t # "list"
    \/ raw_comparison.context_commits.t # "list"
    \/ raw_comparison.merge_base.t # "dict"

\* C18: whenever the extracted comparison data lacks a required field or
\* carries a mistyped one (a commit collection that is not a list, an absent
\* or mistyped merge base), compare never invokes process_comparison and,
\* once it has left the check, has raised a ValidationError with stage
\* 'compare'.
C18_CompareRejectsMalformed ==
    (/\ arg.op = "compare"
     /\ "raw_comparison" \in DOMAIN arg
     /\ Malformed(arg.raw_comparison))
    => /\ \A i \in 1..Len(calls) : calls[i] # "process_comparison"
       /\ pc # "compare_extracted"
            => /\ outcome.kind = "raised"
               /\ outcome.error.exc = "ValidationError"
               /\ outcome.error.stage = "compare"

-----------------------------------------------------------------------------
(* The time window example *)

\* the call is on a history given by ages, committed oldest first, with
\* since='2w' and no until, and has returned
TwoWeekCall ==
    /\ arg.op = "get_commits"
    /\ "ages" \in DOMAIN arg
    /\ \A i \in 1..(Len(arg.ages) - 1) : arg.ages[i] >= arg.ages[i + 1]
    /\ arg.since = Token(<<"2", "w">>)
    /\ arg.until = None
    /\ ret # Nothing

\* the commits of the history that are at most `days` days old, newest first
NotOlderThan(days) ==
    LET kept == SelectSeq([i \in 1..Len(arg.ages) |-> i],
                          LAMBDA i : arg.ages[i] <= days)
    IN  [j \in 1..Len(kept) |-> kept[Len(kept) + 1 - j]]

\* the records returned are those of these commits, in this order
ReturnsCommits(ids) ==
    /\ ~ret.raised
    /\ Len(ret.value) = Len(ids)
    /\ \A j \in 1..Len(ids) :
          /\ ret.value[j].hash = Str(SubSeq(arg.repo.objects[ids[j]].hexsha, 1, 8))
          /\ ret.value[j].timestamp =
                 isoformat(Datetime(Now.hours - timedelta(arg.ages[ids[j]])))

\* C22 (as the code has it): with since='2w' and no until, get_commits
\* retains exactly the commits that are at most 14 days old; of commits 1, 10
\* and 40 days old it retains the 1-day-old and the 10-day-old commit.
C22_TwoWeekWindow ==
    TwoWeekCall =>
        /\ ReturnsCommits(NotOlderThan(14))
        /\ arg.ages = <<40, 10, 1>> => ReturnsCommits(<<3, 2>>)

\* the call on the history of the example has returned two commits
C22_Witness ==
    /\ TwoWeekCall
    /\ arg.ages = <<40, 10, 1>>
    /\ Len(ret.value) = 2

\* C22 (as stated): for a history whose commits are 1, 10 and 40 days old,
\* get_commits with since='2w' and no until retains only the 1-day-old
\* commit.
C22_OnlyTheNewest ==
    (TwoWeekCall /\ arg.ages = <<40, 10, 1>>) => ReturnsCommits(<<3>>)

-----------------------------------------------------------------------------
(* The counts of a comparison *)

\* C23: in the result of compare, divergence_metrics.base_commit_count is
\* the number of commits unique to the base side and compare_commit_count
\* the number unique to the compare side, whatever the sizes of the sides:
\* the counts are those of the extraction also where the digest keeps only
\* the first MAX_COMMITS_PER_GROUP commits of a side.
C23_DivergenceCounts ==
    (arg.op = "compare" /\ pc = "returned") =>
        LET metrics == outcome.value.divergence_metrics.v IN
        /\ metrics.base_commit_count = Num(Len(arg.raw_comparison.base_only_commits.v))
        /\ metrics.compare_commit_count =
               Num(Len(arg.raw_comparison.compare_only_commits.v))
        /\ Len(outcome.value.base_only_commits.v) <= MAX_COMMITS_PER_GROUP
        /\ Len(outcome.value.compare_only_commits.v) <= MAX_COMMITS_PER_GROUP

\* compare has returned for a base side of 3 commits and a compare side of
\* more commits than the digest keeps
C23_Witness ==
    /\ arg.op = "compare"
    /\ pc = "returned"
    /\ outcome.value.divergence_metrics.v.base_commit_count = Num(3)
    /\ outcome.value.divergence_metrics.v.compare_commit_count.v > MAX_COMMITS_PER_GROUP
    /\ Len(outcome.value.compare_only_commits.v) = MAX_COMMITS_PER_GROUP

-----------------------------------------------------------------------------
(* The stage operations and the records they are given *)

\* the commit records and collections that compare hands to its stages
HandedOn == {"base_only_commits", "compare_only_commits", "context_commits", "merge_base"}

\* C26: no stage operation changes a field of the commit records or of the
\* collections it received as input: after process_comparison and after
\* clean_comparison_data the commit lists and the merge base that were
\* handed to them read as the extractor returned them.
C26_InputsUntouched ==
    (arg.op = "compare" /\ ret # Nothing) =>
        \A key \in HandedOn : ret[key] = arg.raw_comparison[key]

-----------------------------------------------------------------------------
(* The check on the classifier's output *)

\* the commits nested in the buckets of a classifier output
NestedCommits(grouped_data) ==
    LET items == grouped_data["grouped_commits"].v
    IN  UNION {{items[i][2].v[j] : j \in 1..Len(items[i][2].v)} : i \in 1..Len(items)}

\* C27: validate_grouped_data accepts a classifier output only if the bucket
\* map and the stats are present and every nested commit passes the check
\* that validate_commit applies: the required fields are present and the
\* timestamp parses.
C27_NestedCommitsChecked ==
    (arg.op = "validate_grouped_data" /\ ret # Nothing /\ ret.is_valid) =>
        /\ {"grouped_commits", "stats"} \subseteq DOMAIN arg.input
        /\ \A commit \in NestedCommits(arg.input) : validate_commit(commit)[1]

-----------------------------------------------------------------------------
(* The commits that validate_commits returns *)

\* a count of lines: an integer that is not negative
LineCount(x) == x.t = "int" /\ x.v >= 0

\* C28: every commit returned by validate_commits has hash, author, message
\* and timestamp present, a timestamp that parses, and insertions and
\* deletions that are non-negative integers.
C28_ReturnedCommitsWellFormed ==
    (arg.op = "validate_commits" /\ ret # Nothing) =>
        \A i \in 1..Len(ret.valid) :
            LET commit == ret.valid[i] IN
            /\ \A f \in {"hash", "author", "message", "timestamp"} :
                   f \in DOMAIN commit /\ commit[f] # None
            /\ commit["timestamp"].t = "str"
            /\ fromisoformat_ok(commit["timestamp"].v)
            /\ LineCount(commit["insertions"])
            /\ LineCount(commit["deletions"])

-----------------------------------------------------------------------------
(* The per-author statistics of group_commits *)

\* the identity of a commit's author: the email when present, else the name
IdentityOf(commit) ==
    IF "email" \in DOMAIN commit THEN commit["email"] ELSE commit["author"]

\* the positions of the commits of one identity, and of one category of them
CommitsOf(commits, who) == {i \in 1..Len(commits) : IdentityOf(commits[i]) = who}

CommitsOfType(commits, who, commit_type) ==
    {i \in CommitsOf(commits, who) :
        _classify_commit(commits[i]["message"].v) = commit_type}

RECURSIVE SumOfCounts(_, _)
SumOfCounts(by_author, i) ==
    IF i > Len(by_author) THEN 0
    ELSE by_author[i][2].count + SumOfCounts(by_author, i + 1)

\* the entry is the one of identity who: its label is a longest display name
\* of who's commits, its count and its breakdown are those of who's commits
EntryOf(entry, commits, who) ==
    /\ \E i \in CommitsOf(commits, who) :
          /\ entry[1] = commits[i]["author"]
          /\ \A j \in CommitsOf(commits, who) :
                 Len(commits[j]["author"].v) <= Len(entry[1].v)
    /\ entry[2].count = Cardinality(CommitsOf(commits, who))
    /\ \A commit_type \in CategoryNames :
          Cardinality(CommitsOfType(commits, who, commit_type)) =
              IF HasKey(entry[2].types, commit_type)
              THEN Get(entry[2].types, commit_type) ELSE 0

\* C29: stats.by_author of group_commits has exactly one entry per distinct
\* author identity (the email when present, else the display name), labelled
\* with the longest display name seen for it, with the count and the
\* per-category breakdown of exactly that identity's commits; the counts sum
\* to total_commits.
C29_OneEntryPerIdentity ==
    (arg.op = "group_commits" /\ ret # Nothing) =>
        LET by_author == ret.stats.v.by_author
            identities == {IdentityOf(arg.input[i]) : i \in 1..Len(arg.input)}
        IN  /\ Len(by_author) = Cardinality(identities)
            /\ \A who \in identities :
                   \E k \in 1..Len(by_author) : EntryOf(by_author[k], arg.input, who)
            /\ SumOfCounts(by_author, 1) = ret.stats.v.total_commits

-----------------------------------------------------------------------------
(* The errors that leave RepoParser.parse *)

\* C30: every error that leaves RepoParser.parse names the pipeline stage
\* that produced it, also the error of a bad time specification or of an
\* unknown branch raised by the extractor and an exception raised inside the
\* classifier or the reducer.
C30_ErrorsNameStage ==
    pc = "raised" =>
        /\ outcome.kind = "raised"
        /\ "stage" \in DOMAIN outcome.error

=============================================================================
